---- MODULE Spec2Model ----
(***************************************************************************)
(* Model of the mcp_qa server of saaga-rules: the sqlite connection        *)
(* manager (db/db_manager.py), the aggregate repository                    *)
(* (db/repository.py), the entity CRUD modules (db/crud/*.py), the pytest  *)
(* tool's database loggers (tools/testing/db_loggers.py,                   *)
(* tools/testing/pytest.py), the result envelope (models/tool_result.py)   *)
(* and the registered tools (tools/formatter, tools/linter, tools/vulture, *)
(* tools/testing) as far as their outcomes go.                             *)
(*                                                                         *)
(* The six tables are sets of rows.  Columns that no modelled operation    *)
(* reads back (created_at, outcome, error_type, result, longrepr,          *)
(* end_line, condition, branch_type) are left out of the rows.  NULL is    *)
(* written 0 in integer columns (row ids start at 1).                      *)
(*                                                                         *)
(* Every storage statement may fail (disk error, locked database): each    *)
(* operation takes a fail point, 0 for "no failure", k for "the k-th       *)
(* statement of the operation raises".                                     *)
(***************************************************************************)
EXTENDS Integers, Sequences, FiniteSets, TLC

VARIABLES
    source_files,              \* rows [id, file_path, file_hash, updated_at]
    pytest_files,              \* rows [id, file_path, source_file_id, pytest_summary, updated_at]
    pytest_errors,             \* rows [id, node_id, test_file_id]
    pytest_collection_errors,  \* rows [id, node_id, test_file_id]
    coverage_issues,           \* rows [id, file_path, source_file_id, line_number, is_excluded]
    coverage_branches,         \* rows [id, coverage_issue_id, source_line]
    now,                       \* the wall clock read by format_datetime()
    last,                      \* the most recent call: [op, args, ret, raised, failed, before]
    chain,                     \* progress of a get-next / delete / get-next sequence
    conns,                     \* _CONNECTION_CACHE and the connections sqlite3.connect made
    trace                      \* what the most recent call ran, in order

tables == <<source_files, pytest_files, pytest_errors, pytest_collection_errors,
            coverage_issues, coverage_branches>>
vars == <<source_files, pytest_files, pytest_errors, pytest_collection_errors,
          coverage_issues, coverage_branches, now, last, chain, conns, trace>>

\* The record of a call.  before counts the rows the call is aimed at as
\* they were when it started: the target's child rows for a save or a run,
\* the rows of the path or id for an upsert or an update, the branches of the
\* issues a delete removes.
Call(op, args, run, fail, before) ==
    [op |-> op, args |-> args, ret |-> run.ret, raised |-> run.raised,
     failed |-> fail # 0, before |-> before]

-----------------------------------------------------------------------------
(* Bounds of the model and the input domains.                              *)

MaxErrors == 1
MaxId == 2
MaxClock == 1
MaxIssues == 1
MaxConns == 3

TestPaths == {"t1.py", "t2.py"}
SrcPaths == {"s1.py", "s2.py"}
NodeIds == {"n1", "n2"}
Summaries == {"sumA"}
Hashes == {"h1"}

\* The empty summary {} that the literal text "{}" serialises.
EmptySummary == "empty"

SeqsUpTo(S, n) == UNION {[1..k -> S] : k \in 0..n}

ErrLists == SeqsUpTo(NodeIds, MaxErrors)

\* The single inputs of the specifications that fix one path.
OnePath == "s1.py"
OneTest == "t1.py"
OneSummary == "sumA"
OneError == <<"n1">>

-----------------------------------------------------------------------------
(* Helpers over rows.                                                      *)

Max(S) == IF S = {} THEN 0 ELSE CHOOSE x \in S : \A y \in S : y <= x
Min(S) == CHOOSE x \in S : \A y \in S : x <= y

Ids(rows) == {r.id : r \in rows}

\* The rows in rowid order, the order sqlite scans and ORDER BY id yields.
RECURSIVE OrderById(_)
OrderById(rows) ==
    IF rows = {} THEN <<>>
    ELSE LET first == CHOOSE r \in rows : r.id = Min(Ids(rows))
         IN <<first>> \o OrderById(rows \ {first})

\* fetchone(): the first row of the result, as a set of at most one row.
FetchOne(rows) == IF rows = {} THEN {} ELSE {OrderById(rows)[1]}

\* cursor.lastrowid of an INSERT into an INTEGER PRIMARY KEY table.
NextRowId(rows) == Max(Ids(rows)) + 1

\* json.dumps of a summary mapping: the serialised text, not the mapping.
JsonDumps(s) == <<"json", s>>
JsonLoads(t) == t[2]

\* format_datetime(): the current time as text.
format_datetime == now

DB == [source_files |-> source_files,
       pytest_files |-> pytest_files,
       pytest_errors |-> pytest_errors,
       pytest_collection_errors |-> pytest_collection_errors,
       coverage_issues |-> coverage_issues,
       coverage_branches |-> coverage_branches]

SetDB(d) ==
    /\ source_files' = d.source_files
    /\ pytest_files' = d.pytest_files
    /\ pytest_errors' = d.pytest_errors
    /\ pytest_collection_errors' = d.pytest_collection_errors
    /\ coverage_issues' = d.coverage_issues
    /\ coverage_branches' = d.coverage_branches

-----------------------------------------------------------------------------
(* models/tool_result.py: ToolStatus, NextAction, ToolResult               *)

\* Python values the tools hand back, tagged with their class.
PyNone == [cls |-> "NoneType"]
PyStr(v) == [cls |-> "str", value |-> v]
PyDict(items) == [cls |-> "dict", items |-> items]
Function(name) == [cls |-> "function", name |-> name]

ToolStatus == {"Success", "Failure", "Error", "Continue", "Exception"}

NoItems == [k \in {} |-> 0]
Opt(set, default) == IF set = {} THEN default ELSE CHOOSE x \in set : TRUE

\* NextAction(tool=..., instructions=..., mcp_tool=...): instructions has a
\* default; ensure_mcp_tool sets mcp_tool to tool.__name__ when none is given.
NextAction(tool, instructionsOpt, mcpToolOpt) ==
    [cls |-> "NextAction", tool |-> tool,
     instructions |-> Opt(instructionsOpt, "Call the mcp tool."),
     mcp_tool |-> Opt(mcpToolOpt, tool.name)]

\* next_action: Optional[NextAction | dict].  A NextAction stays one; a dict
\* is a valid dict as it stands and is kept as a dict, not made a NextAction.
ValidateNextAction(nextOpt) == nextOpt

\* ToolResult(status=, message=, next_action=, **extra); extra="allow".
ToolResult(status, message, nextOpt, extra) ==
    [cls |-> "ToolResult", status |-> status, message |-> message,
     next_action |-> ValidateNextAction(nextOpt), extra |-> extra]

\* NextAction.model_dump: every field but tool; mcp_tool always included.
NextAction_model_dump(na) ==
    [instructions |-> na.instructions, mcp_tool |-> na.mcp_tool]

\* BaseModel.model_dump(exclude_none=True) of a ToolResult: the fields that
\* are not None and the extra fields; a nested NextAction with all its
\* fields, a nested dict as it is.
BaseModel_model_dump(tr) ==
    LET keys == {"status", "message"} \cup DOMAIN tr.extra
                \cup (IF tr.next_action = {} THEN {} ELSE {"next_action"})
        na == CHOOSE x \in tr.next_action : TRUE
    IN [k \in keys |->
          CASE k = "status" -> tr.status
            [] k = "message" -> tr.message
            [] k = "next_action" ->
                 IF na.cls = "NextAction"
                 THEN [tool |-> na.tool, instructions |-> na.instructions,
                       mcp_tool |-> na.mcp_tool]
                 ELSE na.items
            [] OTHER -> tr.extra[k]]

\* ToolResult.model_dump: the base dump, with next_action replaced by
\* self.next_action.model_dump(...), a method a dict does not have.
ToolResult_model_dump(tr) ==
    LET result == BaseModel_model_dump(tr)
        na == CHOOSE x \in tr.next_action : TRUE
    IN IF tr.next_action = {}
       THEN [raised |-> FALSE, ret |-> result]
       ELSE IF na.cls = "NextAction"
       THEN [raised |-> FALSE,
             ret |-> [result EXCEPT !["next_action"] = NextAction_model_dump(na)]]
       ELSE [raised |-> TRUE, ret |-> "AttributeError"]

\* The tool results serialised: every status, with and without extra
\* fields, next_action absent, a NextAction, or a plain mapping.
Functions == {Function("flake8_report")}

NextActionInputs ==
    {NextAction(t, i, m) : t \in Functions, i \in {{}, {"Fix it."}},
                           m \in {{}, {"formatter"}}}

MappingInputs ==
    {PyDict([mcp_tool |-> "flake8_report", instructions |-> "Call the mcp tool."]),
     PyDict([tool |-> Function("flake8_report")])}

ToolResultInputs ==
    {ToolResult(st, "message", nextOpt, extra) :
        st \in {"Success", "Continue"},
        nextOpt \in {{}} \cup {{n} : n \in NextActionInputs \cup MappingInputs},
        extra \in {NoItems, [data |-> "data"]}}

-----------------------------------------------------------------------------
(* db_manager.py: the connection and the scoped cursor.                    *)

\* get_connection's default isolation_level=None, taken by
\* qa_connection = get_connection("mcp_qa"): sqlite3 autocommit mode, every
\* statement is committed as it executes and no transaction is ever open.
Autocommit == TRUE

\* PRAGMA foreign_keys = ON.
ForeignKeysOn_Off == FALSE
ForeignKeysOn == TRUE

\* conn.rollback() in get_cursor's except branch: with no open transaction
\* there is nothing to undo, the statements already executed stay.
Rollback(before, after) == IF Autocommit THEN after ELSE before

\* get_cursor: commit on normal exit, rollback and re-raise on an exception.
\* run is [db, raised, ret] of the body started in state before.
get_cursor(before, run) ==
    IF run.raised
    THEN [db |-> Rollback(before, run.db), raised |-> TRUE, ret |-> run.ret]
    ELSE run

Raise(d) == [db |-> d, raised |-> TRUE, ret |-> 0]

\* What the body of "with get_cursor() as cursor:" may do: run to its end,
\* return from inside the block, or raise.  ValueError stands for the
\* exceptions derived from Exception, KeyboardInterrupt for those derived
\* from BaseException only (KeyboardInterrupt, SystemExit, GeneratorExit).
BodyNormal == {"end", "return"}
BodyRaises == {"ValueError", "KeyboardInterrupt"}
BodyOutcomes == BodyNormal \cup BodyRaises

\* "except Exception:" catches the exceptions derived from Exception.
ExceptException_All(e) == TRUE
ExceptException(e) == e = "ValueError"

\* The except branch of get_cursor: conn.rollback(), then raise.
OnBodyException(e) == IF ExceptException(e) THEN <<"rollback">> ELSE <<>>

\* The calls one use of get_cursor makes on the connection and the cursor,
\* in order, and how control leaves it: conn.cursor(), the yield that runs
\* the body, conn.commit() after a body that did not raise, the except
\* branch after one that did, cursor.close() in the finally clause.
get_cursor_calls(body) ==
    [calls |-> <<"cursor", "body">>
               \o (IF body \in BodyNormal THEN <<"commit">>
                   ELSE OnBodyException(body))
               \o <<"close">>,
     raised |-> body \in BodyRaises,
     ret |-> IF body \in BodyRaises THEN body ELSE "None"]

\* _CONNECTION_CACHE: the entries [name, conn]; made: the names sqlite3.connect
\* was called for and the options it was given, the k-th connection made
\* being connection k; returned: every [name, conn] a call of get_connection
\* has returned so far; schema: the connections execute_schema ran on; used:
\* the connections a get_cursor scope has worked on.
DatabaseNames == {"mcp_qa", "db_a", "db_b"}

\* timeout and isolation_level of a call: the defaults of get_connection, or
\* values of the caller's.
DefaultOptions == [timeout |-> 10, isolation_level |-> "None"]
ConnectOptions == {DefaultOptions, [timeout |-> 30, isolation_level |-> "DEFERRED"]}

\* if name in _CONNECTION_CACHE
CacheLookup_Miss(c, name) == {}
CacheLookup(c, name) == {e \in c.cache : e.name = name}

\* get_connection(name): the cached connection, else a new one, cached.
\* fail = 1: mkdir or sqlite3.connect raises, no connection is made.
\* fail = 2: a PRAGMA on the new connection raises; the connection was made
\* and is dropped without being cached.
ConnectFailPoints == 0..2

get_connection(c, name, opts, fail) ==
    LET hit == CacheLookup(c, name)
        id == Len(c.made) + 1
        new == [name |-> name, conn |-> id]
    IN IF hit # {}
       THEN LET e == CHOOSE e \in hit : TRUE
            IN [conns |-> [c EXCEPT !.returned = @ \cup {e}],
                raised |-> FALSE, ret |-> e.conn]
       ELSE IF fail = 1
       THEN [conns |-> c, raised |-> TRUE, ret |-> 0]
       ELSE IF fail = 2
       THEN [conns |-> [c EXCEPT !.made = Append(@, [name |-> name, cached |-> FALSE,
                                                     opts |-> opts])],
             raised |-> TRUE, ret |-> 0]
       ELSE [conns |-> [c EXCEPT !.cache = @ \cup {new},
                                 !.made = Append(@, [name |-> name, cached |-> TRUE,
                                                     opts |-> opts]),
                                 !.returned = @ \cup {new}],
             raised |-> FALSE, ret |-> id]

\* qa_connection = get_connection("mcp_qa"), run when the module is imported.
NoConnections ==
    [cache |-> {}, made |-> <<>>, returned |-> {}, schema |-> {}, used |-> {}]
qa_connection == get_connection(NoConnections, "mcp_qa", DefaultOptions, 0)

\* conn = qa_connection, the first statement of get_cursor: the connection
\* the module bound when it was imported.
CursorConnection_Initialized(c) ==
    IF c.schema = {} THEN qa_connection.ret
    ELSE CHOOSE k \in c.schema : \A j \in c.schema : j <= k
CursorConnection(c) == qa_connection.ret

\* init_database(db_name): get_connection(db_name) with the default options,
\* then execute_schema on the connection it returned; returns None.
init_database(c, db_name, fail) ==
    LET connection == get_connection(c, db_name, DefaultOptions, fail)
    IN IF connection.raised THEN connection
       ELSE [conns |-> [connection.conns EXCEPT !.schema = @ \cup {connection.ret}],
             raised |-> FALSE, ret |-> 0]
Return(d, v) == [db |-> d, raised |-> FALSE, ret |-> v]

-----------------------------------------------------------------------------
(* db/crud/pytest_files.py, pytest_errors.py, pytest_collection_errors.py  *)

PytestFileRow(id, path, sfid, summaryText, t) ==
    [id |-> id, file_path |-> path, source_file_id |-> sfid,
     pytest_summary |-> summaryText, updated_at |-> t]

ErrorRow(id, node, tfid) ==
    [id |-> id, node_id |-> node, test_file_id |-> tfid]

\* SELECT * FROM pytest_files WHERE file_path = ?; fetchone()
get_pytest_file_by_path(d, path) ==
    FetchOne({r \in d.pytest_files : r.file_path = path})

\* SELECT id FROM pytest_files WHERE file_path = ?; fetchone()
\* (the lookup of save_test_results_to_db and save_test_file_to_db)
TestFileLookup_Miss(d, path) == {}
TestFileLookup(d, path) ==
    FetchOne({r \in d.pytest_files : r.file_path = path})

\* test_file_id of pytest_errors and of pytest_collection_errors refers to
\* pytest_files(id), the owning test file: with foreign keys enforced on the
\* connection, an INSERT that names no pytest_files row raises
\* sqlite3.IntegrityError.
RefersToNone(parents, id) == ForeignKeysOn /\ id \notin Ids(parents)

\* INSERT INTO pytest_files (...); returns lastrowid
create_pytest_file(d, path, sfid, summaryText) ==
    LET id == NextRowId(d.pytest_files)
    IN Return([d EXCEPT !.pytest_files =
                   @ \cup {PytestFileRow(id, path, sfid, summaryText, format_datetime)}],
              id)

\* INSERT INTO pytest_errors (...); returns lastrowid
create_pytest_error(d, node, tfid) ==
    LET id == NextRowId(d.pytest_errors)
    IN IF RefersToNone(d.pytest_files, tfid) THEN Raise(d)
       ELSE Return([d EXCEPT !.pytest_errors = @ \cup {ErrorRow(id, node, tfid)}], id)

\* INSERT INTO pytest_collection_errors (...); returns lastrowid
create_collection_error(d, node, tfid) ==
    LET id == NextRowId(d.pytest_collection_errors)
    IN IF RefersToNone(d.pytest_files, tfid) THEN Raise(d)
       ELSE Return([d EXCEPT !.pytest_collection_errors =
                       @ \cup {ErrorRow(id, node, tfid)}], id)

\* What the schema does to the errors of a deleted test file: they go with
\* it, or the DELETE is refused (IntegrityError) while there are any.
OnDeleteTestFile == {"cascade", "restrict"}

\* delete_pytest_file(file_id): DELETE FROM pytest_files WHERE id = ?;
\* returns cursor.rowcount > 0
delete_pytest_file(d, id, onDelete) ==
    LET gone == {r \in d.pytest_files : r.id = id}
        owned(rows) == {e \in rows : e.test_file_id \in Ids(gone)}
        children == owned(d.pytest_errors) \cup owned(d.pytest_collection_errors)
    IN get_cursor(d,
         IF ~ForeignKeysOn
         THEN Return([d EXCEPT !.pytest_files = @ \ gone], gone # {})
         ELSE IF onDelete = "restrict" /\ children # {} THEN Raise(d)
         ELSE Return([d EXCEPT !.pytest_files = @ \ gone,
                               !.pytest_errors = @ \ owned(@),
                               !.pytest_collection_errors = @ \ owned(@)],
                     gone # {}))

-----------------------------------------------------------------------------
(* db/repository.py: save_test_results_to_db                               *)

\* DELETE FROM pytest_errors WHERE test_file_id = ?
ClearErrors_Keep(rows, tfid) == rows
ClearErrors_All(rows, tfid) == {}
ClearErrors(rows, tfid) == {e \in rows : e.test_file_id # tfid}

\* UPDATE pytest_files SET pytest_summary = ?, updated_at = ? WHERE id = ?
UpdateSummary(rows, tfid, S) ==
    {IF r.id = tfid
     THEN [r EXCEPT !.pytest_summary = JsonDumps(S), !.updated_at = format_datetime]
     ELSE r : r \in rows}

\* for error in test_errors: INSERT INTO pytest_errors ...  (the first k of E)
RECURSIVE InsertErrors(_, _, _, _)
InsertErrors(rows, tfid, E, k) ==
    IF k = 0 THEN rows
    ELSE LET sofar == InsertErrors(rows, tfid, E, k - 1)
         IN sofar \cup {ErrorRow(NextRowId(sofar), E[k], tfid)}

\* The statements of save_test_results_to_db, in order:
\*   1 SELECT id FROM pytest_files     2 INSERT INTO pytest_files (row absent)
\*   3 UPDATE pytest_files             4 DELETE FROM pytest_errors
\*   4+k INSERT INTO pytest_errors, the k-th element of test_errors
SaveTestResultsFailPoints(d, F, E) ==
    (0..(4 + Len(E))) \ (IF TestFileLookup(d, F) = {} THEN {} ELSE {2})

SaveTestResultsBody(d, F, S, E, fail) ==
    LET found == TestFileLookup(d, F)
        newId == NextRowId(d.pytest_files)
        tfid == IF found # {} THEN (CHOOSE r \in found : TRUE).id ELSE newId
        d2 == IF found # {} THEN d
              ELSE [d EXCEPT !.pytest_files =
                       @ \cup {PytestFileRow(newId, F, 0, JsonDumps(S), format_datetime)}]
        d3 == [d2 EXCEPT !.pytest_files = UpdateSummary(@, tfid, S)]
        d4 == [d3 EXCEPT !.pytest_errors = ClearErrors(@, tfid)]
        d5(k) == [d4 EXCEPT !.pytest_errors = InsertErrors(@, tfid, E, k)]
    IN CASE fail = 0 -> Return(d5(Len(E)), 0)
         [] fail = 1 -> Raise(d)
         [] fail = 2 -> Raise(d)
         [] fail = 3 -> Raise(d2)
         [] fail = 4 -> Raise(d3)
         [] OTHER -> Raise(d5(fail - 5))

save_test_results_to_db(d, F, S, E, fail) ==
    get_cursor(d, SaveTestResultsBody(d, F, S, E, fail))

-----------------------------------------------------------------------------
(* tools/testing/db_loggers.py and run_pytest's recording steps            *)

\* log_collection_error: get or create the test file, add one collection error
log_collection_error(d, F) ==
    LET found == get_pytest_file_by_path(d, F)
        made == create_pytest_file(d, F, 0, JsonDumps(EmptySummary))
        d1 == IF found = {} THEN made.db ELSE d
        tfid == IF found = {} THEN made.ret ELSE (CHOOSE r \in found : TRUE).id
    IN create_collection_error(d1, F, tfid).db

RECURSIVE LogEach(_, _, _, _)
LogEach(d, tfid, E, k) ==
    IF k = 0 THEN d
    ELSE create_pytest_error(LogEach(d, tfid, E, k - 1), E[k], tfid).db

\* log_test_errors: nothing at all for an empty list; otherwise get or create
\* the test file and add one pytest_errors row per error
log_test_errors(d, F, E) ==
    IF E = <<>> THEN d
    ELSE LET found == get_pytest_file_by_path(d, F)
             made == create_pytest_file(d, F, 0, JsonDumps(EmptySummary))
             d1 == IF found = {} THEN made.db ELSE d
             tfid == IF found = {} THEN made.ret ELSE (CHOOSE r \in found : TRUE).id
         IN LogEach(d1, tfid, E, Len(E))

\* run_pytest, lines 111-145: exit code 5 logs a collection error and returns
\* ERROR; any other exit code logs the failing tests, if there are any.
run_pytest_FailOnErrors(d, F, rc5, E) ==
    Return(IF E # <<>> THEN log_test_errors(d, F, E) ELSE d,
           IF E # <<>>
           THEN ToolResult("Failure", "Tests failed", {}, [data |-> "data"])
           ELSE ToolResult("Success", "Successfully ran tests", {}, [data |-> "data"]))
run_pytest(d, F, rc5, E) ==
    IF rc5
    THEN Return(log_collection_error(d, F),
                ToolResult("Error", "No tests collected", {}, [data |-> "data"]))
    ELSE Return(IF E # <<>> THEN log_test_errors(d, F, E) ELSE d,
                ToolResult("Success", "Successfully ran tests", {}, [data |-> "data"]))

\* run_pytest when pytest gives no usable report.  "malformed_report":
\* load_report_files catches the parse error and returns {"error": True},
\* process_pytest_data finds no "tests" key and returns no errors, and
\* run_pytest goes on to its SUCCESS result.  "crash": subprocess.run raises
\* (OSError), caught by run_pytest's `except Exception`.
PytestBadOutputs == {"malformed_report", "crash"}

run_pytest_bad_output(d, F, how) ==
    IF how = "crash"
    THEN Return(d, ToolResult("Exception", "Error running pytest", {}, NoItems))
    ELSE run_pytest(d, F, FALSE, <<>>)

-----------------------------------------------------------------------------
(* db/repository.py: get_next_pytest_error, delete_pytest_error            *)

\* SELECT * FROM pytest_errors WHERE test_file_id = ? ORDER BY id LIMIT 1
\* The result is the set holding the row, or the empty set for None.
NextErrorQuery_Any(rows, tfid) ==
    LET mine == {e \in rows : e.test_file_id = tfid}
    IN IF mine = {} THEN {} ELSE {OrderById(mine)[Cardinality(mine)]}
NextErrorQuery(rows, tfid) ==
    FetchOne({e \in rows : e.test_file_id = tfid})

get_next_pytest_error(d, tfid) ==
    get_cursor(d, Return(d, NextErrorQuery(d.pytest_errors, tfid)))

\* DELETE FROM pytest_errors WHERE node_id = ?; returns cursor.rowcount
WhereNodeId_First(rows, node) ==
    LET hit == {e \in rows : e.node_id = node}
    IN {e \in hit : \A o \in hit : e.id <= o.id}
WhereNodeId_None(rows, node) == {e \in rows : e.node_id = node /\ e.node_id # node}
WhereNodeId(rows, node) == {e \in rows : e.node_id = node}

delete_pytest_error(d, node) ==
    LET gone == WhereNodeId(d.pytest_errors, node)
    IN get_cursor(d, Return([d EXCEPT !.pytest_errors = @ \ gone], Cardinality(gone)))

-----------------------------------------------------------------------------
(* db/crud/source_files.py and db/repository.py: source and test files     *)

SourceFileRow(id, path, hash, t) ==
    [id |-> id, file_path |-> path, file_hash |-> hash, updated_at |-> t]

\* SELECT id FROM source_files WHERE file_path = ?; fetchone()
SourceFileLookup(d, path) ==
    FetchOne({r \in d.source_files : r.file_path = path})

\* The except branch of save_source_file_to_db and save_test_file_to_db:
\* the exception is logged and None (0) is returned.
ReturnNoneOnError(run) ==
    IF run.raised THEN [db |-> run.db, raised |-> FALSE, ret |-> 0] ELSE run

\* save_source_file_to_db: 1 SELECT id FROM source_files, 2 INSERT (row absent)
SaveSourceFileFailPoints(d, P) ==
    IF SourceFileLookup(d, P) = {} THEN 0..2 ELSE 0..1

SaveSourceFileBody(d, P, fail) ==
    LET found == SourceFileLookup(d, P)
        newId == NextRowId(d.source_files)
    IN IF fail = 1 THEN Raise(d)
       ELSE IF found # {} THEN Return(d, (CHOOSE r \in found : TRUE).id)
       ELSE IF fail = 2 THEN Raise(d)
       ELSE Return([d EXCEPT !.source_files =
                       @ \cup {SourceFileRow(newId, P, "", format_datetime)}], newId)

save_source_file_to_db(d, P, fail) ==
    ReturnNoneOnError(get_cursor(d, SaveSourceFileBody(d, P, fail)))

\* save_test_file_to_db: save_source_file_to_db(source_path) first (a None
\* result is only logged), then 1 SELECT id FROM pytest_files, 2 INSERT.
SaveTestFileFailPoints(d, T) ==
    IF TestFileLookup(d, T) = {} THEN 0..2 ELSE 0..1

SaveTestFileBody(d, T, sfid, fail) ==
    LET found == TestFileLookup(d, T)
        newId == NextRowId(d.pytest_files)
    IN IF fail = 1 THEN Raise(d)
       ELSE IF found # {} THEN Return(d, (CHOOSE r \in found : TRUE).id)
       ELSE IF fail = 2 THEN Raise(d)
       ELSE Return([d EXCEPT !.pytest_files =
                       @ \cup {PytestFileRow(newId, T, sfid, JsonDumps(EmptySummary),
                                             format_datetime)}], newId)

save_test_file_to_db(d, T, P, failSrc, fail) ==
    LET src == save_source_file_to_db(d, P, failSrc)
    IN ReturnNoneOnError(get_cursor(src.db, SaveTestFileBody(src.db, T, src.ret, fail)))

\* update_source_file(file_id, file_hash=None): "updated_at = ?" is always
\* among the SET fields, so the UPDATE always runs.  hashOpt is {} for None.
update_source_file(d, id, hashOpt) ==
    LET hit == {r \in d.source_files : r.id = id}
        upd(r) == [r EXCEPT !.file_hash = IF hashOpt = {} THEN @
                                          ELSE CHOOSE h \in hashOpt : TRUE,
                            !.updated_at = format_datetime]
    IN Return([d EXCEPT !.source_files = (@ \ hit) \cup {upd(r) : r \in hit}],
              hit # {})

\* update_pytest_file(file_id, source_file_id=None, pytest_summary=None)
update_pytest_file(d, id, sfidOpt, summaryOpt) ==
    LET hit == {r \in d.pytest_files : r.id = id}
        upd(r) == [r EXCEPT !.source_file_id = IF sfidOpt = {} THEN @
                                               ELSE CHOOSE x \in sfidOpt : TRUE,
                            !.pytest_summary = IF summaryOpt = {} THEN @
                                               ELSE CHOOSE x \in summaryOpt : TRUE,
                            !.updated_at = format_datetime]
    IN Return([d EXCEPT !.pytest_files = (@ \ hit) \cup {upd(r) : r \in hit}],
              hit # {})

-----------------------------------------------------------------------------
(* db/crud/coverage_issues.py and db/repository.py: coverage issues        *)

IssueRow(id, path, sfid, line, excl) ==
    [id |-> id, file_path |-> path, source_file_id |-> sfid,
     line_number |-> line, is_excluded |-> excl]

BranchRow(id, issueId, line) ==
    [id |-> id, coverage_issue_id |-> issueId, source_line |-> line]

\* The schema's ON DELETE CASCADE of coverage_branches.coverage_issue_id.
CascadeBranches(branches, goneIds) ==
    {b \in branches : b.coverage_issue_id \notin goneIds}

\* DELETE FROM coverage_issues WHERE ...: the rows go, and with foreign keys
\* enforced on the connection their branches go with them.
DeleteIssueRows(d, gone) ==
    [d EXCEPT !.coverage_issues = @ \ gone,
              !.coverage_branches = IF ForeignKeysOn
                                    THEN CascadeBranches(@, Ids(gone))
                                    ELSE @]

\* delete_coverage_issue(issue_id) -> rowcount > 0
delete_coverage_issue(d, id) ==
    LET gone == {i \in d.coverage_issues : i.id = id}
    IN get_cursor(d, Return(DeleteIssueRows(d, gone), gone # {}))

\* delete_coverage_issues_by_file_path(file_path) -> rowcount
delete_coverage_issues_by_file_path(d, path) ==
    LET gone == {i \in d.coverage_issues : i.file_path = path}
    IN get_cursor(d, Return(DeleteIssueRows(d, gone), Cardinality(gone)))

\* delete_coverage_issues_by_source_file_id(source_file_id) -> rowcount
delete_coverage_issues_by_source_file_id(d, sfid) ==
    LET gone == {i \in d.coverage_issues : i.source_file_id = sfid}
    IN get_cursor(d, Return(DeleteIssueRows(d, gone), Cardinality(gone)))

\* update_coverage_issue(issue_id, is_excluded=None, source_file_id=None):
\* returns False before touching the database when no field is given.
update_coverage_issue(d, id, exclOpt, sfidOpt) ==
    LET hit == {r \in d.coverage_issues : r.id = id}
        upd(r) == [r EXCEPT !.is_excluded = IF exclOpt = {} THEN @
                                            ELSE CHOOSE x \in exclOpt : TRUE,
                            !.source_file_id = IF sfidOpt = {} THEN @
                                               ELSE CHOOSE x \in sfidOpt : TRUE]
    IN IF exclOpt = {} /\ sfidOpt = {} THEN Return(d, FALSE)
       ELSE get_cursor(d,
                Return([d EXCEPT !.coverage_issues = (@ \ hit) \cup {upd(r) : r \in hit}],
                       hit # {}))

\* An input entry of save_coverage_issues_to_db: a mapping with "type", and
\* for a line issue "line_number", "is_excluded" and "branches" (a list of
\* branch mappings, here their source_line), for a branch "source_line" and
\* possibly "parent_issue_id".
LineEntry(line, branches) ==
    [type |-> "CoverageIssue", line_number |-> line, is_excluded |-> FALSE,
     branches |-> branches, source_line |-> 0, has_parent |-> FALSE]
BranchEntry(line, hasParent) ==
    [type |-> "CoverageBranch", line_number |-> 0, is_excluded |-> FALSE,
     branches |-> <<>>, source_line |-> line, has_parent |-> hasParent]
OtherEntry ==
    [type |-> "Other", line_number |-> 40, is_excluded |-> FALSE,
     branches |-> <<>>, source_line |-> 40, has_parent |-> FALSE]
\* An entry with no "type" key: issue.get("type", "") gives "".
NoTypeEntry == [OtherEntry EXCEPT !.type = ""]

\* line_issues / branch_issues: the entries of each type, in input order
line_issues(issues) == SelectSeq(issues, LAMBDA e : e.type = "CoverageIssue")
branch_issues_All(issues) == issues
branch_issues(issues) == SelectSeq(issues, LAMBDA e : e.type = "CoverageBranch")

\* The INSERT statements the two loops execute, in order.  An "issue"
\* statement inserts a coverage_issues row and sets coverage_issue_id to its
\* lastrowid; a "branch" statement inserts a coverage_branches row under the
\* current coverage_issue_id.
IssueStmt(line, excl) == [kind |-> "issue", line |-> line, excl |-> excl]
BranchStmt(line) == [kind |-> "branch", line |-> line, excl |-> FALSE]

RECURSIVE NestedBranchStmts(_)
NestedBranchStmts(bs) ==
    IF bs = <<>> THEN <<>>
    ELSE <<BranchStmt(Head(bs))>> \o NestedBranchStmts(Tail(bs))

RECURSIVE LineStmts(_)
LineStmts(ls) ==
    IF ls = <<>> THEN <<>>
    ELSE <<IssueStmt(Head(ls).line_number, Head(ls).is_excluded)>>
         \o NestedBranchStmts(Head(ls).branches)
         \o LineStmts(Tail(ls))

RECURSIVE StandaloneStmts(_)
StandaloneStmts_WithParents(bs) ==
    IF bs = <<>> THEN <<>>
    ELSE <<IssueStmt(Head(bs).source_line, FALSE), BranchStmt(Head(bs).source_line)>>
StandaloneStmts(bs) ==
    IF bs = <<>> THEN <<>>
    ELSE (IF Head(bs).has_parent THEN <<>>
          ELSE <<IssueStmt(Head(bs).source_line, FALSE),
                 BranchStmt(Head(bs).source_line)>>)
         \o StandaloneStmts(Tail(bs))

\* DELETE FROM coverage_issues WHERE file_path = ?: the rows the save clears,
\* whatever their source_file_id.
ClearIssues_None(rows, P) == {}
ClearIssues(rows, P) == {i \in rows : i.file_path = P}

InsertStmts(issues) ==
    LineStmts(line_issues(issues)) \o StandaloneStmts(branch_issues(issues))

\* Executes the first k statements; cur is the current coverage_issue_id.
RECURSIVE RunStmts(_, _, _, _, _)
RunStmts(d, stmts, k, P, sfid) ==
    IF k = 0 THEN [db |-> d, cur |-> 0]
    ELSE LET prev == RunStmts(d, stmts, k - 1, P, sfid)
             s == stmts[k]
             issueId == NextRowId(prev.db.coverage_issues)
             branchId == NextRowId(prev.db.coverage_branches)
         IN IF s.kind = "issue"
            THEN [db |-> [prev.db EXCEPT !.coverage_issues =
                            @ \cup {IssueRow(issueId, P, sfid, s.line, s.excl)}],
                  cur |-> issueId]
            ELSE [db |-> [prev.db EXCEPT !.coverage_branches =
                            @ \cup {BranchRow(branchId, prev.cur, s.line)}],
                  cur |-> prev.cur]

\* The statements of save_coverage_issues_to_db, in order:
\*   1 SELECT id FROM source_files     2 INSERT INTO source_files (row absent)
\*   3 DELETE FROM coverage_issues WHERE file_path = ?
\*   3+j the j-th INSERT of the two loops
SaveCoverageFailPoints(d, P, issues) ==
    (0..(3 + Len(InsertStmts(issues))))
        \ (IF SourceFileLookup(d, P) = {} THEN {} ELSE {2})

SaveCoverageBody(d, P, issues, fail) ==
    LET found == SourceFileLookup(d, P)
        newId == NextRowId(d.source_files)
        sfid == IF found # {} THEN (CHOOSE r \in found : TRUE).id ELSE newId
        d2 == IF found # {} THEN d
              ELSE [d EXCEPT !.source_files =
                       @ \cup {SourceFileRow(newId, P, "", format_datetime)}]
        d3 == DeleteIssueRows(d2, ClearIssues(d2.coverage_issues, P))
        stmts == InsertStmts(issues)
        d4(k) == RunStmts(d3, stmts, k, P, sfid).db
    IN CASE fail = 0 -> Return(d4(Len(stmts)), 0)
         [] fail = 1 -> Raise(d)
         [] fail = 2 -> Raise(d)
         [] fail = 3 -> Raise(d2)
         [] OTHER -> Raise(d4(fail - 4))

save_coverage_issues_to_db(d, P, issues, fail) ==
    get_cursor(d, SaveCoverageBody(d, P, issues, fail))

\* get_next_coverage_issue(file_path=None): 1 SELECT the lowest issue,
\* 2 SELECT its branches (an issue was found).  The try/except inside the
\* cursor scope turns any exception into a None result.  pathOpt is {} for
\* None; the result is {} for None, else the issue with its branches.
GetNextCoverageFailPoints(d, pathOpt) ==
    IF {i \in d.coverage_issues : pathOpt = {} \/ i.file_path \in pathOpt} = {}
    THEN 0..1 ELSE 0..2

get_next_coverage_issue(d, pathOpt, fail) ==
    LET found == FetchOne({i \in d.coverage_issues :
                              pathOpt = {} \/ i.file_path \in pathOpt})
        withBranches(i) ==
            [issue |-> i,
             branches |-> {b \in d.coverage_branches : b.coverage_issue_id = i.id}]
    IN get_cursor(d, IF fail # 0 THEN Return(d, {})
                     ELSE Return(d, {withBranches(i) : i \in found}))

\* The input entries and lists the model draws from.
Entries ==
    {LineEntry(10, <<>>), LineEntry(20, <<21>>), BranchEntry(30, FALSE),
     BranchEntry(31, TRUE), OtherEntry}

\* A report with a standalone branch ahead of a line entry that has a branch.
MixedIssues == <<BranchEntry(30, FALSE), LineEntry(20, <<21>>)>>

IssueLists == SeqsUpTo(Entries, MaxIssues) \cup {MixedIssues}

ShortIssueLists == {<<e>> : e \in Entries}

OneIssue == <<LineEntry(10, <<>>)>>

-----------------------------------------------------------------------------
(* db/crud/*.py and db/repository.py: create, point lookups, delete        *)

\* The empty path, a path of no row, and an issue with one branch.
EmptyPath == ""
NoSuchPath == "nope.py"
BranchedIssue == <<LineEntry(20, <<21>>)>>

\* create_source_file(file_path, file_hash): INSERT INTO source_files; the
\* path is not looked at before the statement runs.
create_source_file(d, path, hash) ==
    LET id == NextRowId(d.source_files)
    IN get_cursor(d, Return([d EXCEPT !.source_files =
                                @ \cup {SourceFileRow(id, path, hash, format_datetime)}],
                            id))

\* ... WHERE id = ?
WhereId_All(rows, id) == rows
WhereId(rows, id) == {r \in rows : r.id = id}

\* ... WHERE file_path = ?
WherePath(rows, path) == {r \in rows : r.file_path = path}

\* SELECT * FROM <table> WHERE ...; row = fetchone(); dict(row) if row, else
\* None.  The result is {} for None.
SelectOne(d, rows) == get_cursor(d, Return(d, FetchOne(rows)))

get_source_file_by_id(d, id) == SelectOne(d, WhereId(d.source_files, id))
get_source_file_by_path(d, path) == SelectOne(d, WherePath(d.source_files, path))
get_pytest_file_by_id(d, id) == SelectOne(d, WhereId(d.pytest_files, id))
get_pytest_error_by_id(d, id) == SelectOne(d, WhereId(d.pytest_errors, id))
get_coverage_issue_by_id(d, id) == SelectOne(d, WhereId(d.coverage_issues, id))
get_coverage_branch_by_id(d, id) == SelectOne(d, WhereId(d.coverage_branches, id))

\* repository.get_pytest_file(file_path), get_source_file(file_path): None
\* when no row has the path; the row found, without its related rows here.
get_pytest_file(d, path) == SelectOne(d, WherePath(d.pytest_files, path))
get_source_file(d, path) == SelectOne(d, WherePath(d.source_files, path))

\* get_next_pytest_error_dict(test_file=None): the lowest error, of the test
\* file when one is given (tfid 0 stands for None); when there is no row,
\* the dictionary {"Success": "No pytest errors were found"}.
NoErrorsFound == [Success |-> "No pytest errors were found"]

get_next_pytest_error_dict(d, tfid) ==
    LET result == IF tfid = 0 THEN FetchOne(d.pytest_errors)
                  ELSE NextErrorQuery(d.pytest_errors, tfid)
    IN get_cursor(d, Return(d, IF result # {} THEN result ELSE {NoErrorsFound}))

\* get_coverage_issues_by_file_path(file_path): fetchall(), here as a set
get_coverage_issues_by_file_path(d, path) ==
    get_cursor(d, Return(d, WherePath(d.coverage_issues, path)))

\* What the schema does to the rows that refer to a deleted source file, the
\* detachment the data model prescribes: the rows stay, their
\* source_file_id either as it was (a plain column) or set to NULL (a
\* reference declared ON DELETE SET NULL).
OnDeleteActions == {"plain_column", "set_null"}

Detach(rows, goneIds, onDelete) ==
    IF onDelete = "set_null"
    THEN {IF r.source_file_id \in goneIds THEN [r EXCEPT !.source_file_id = 0] ELSE r :
            r \in rows}
    ELSE rows

\* delete_source_file(file_id): DELETE FROM source_files WHERE id = ?;
\* returns cursor.rowcount > 0
delete_source_file(d, id, onDelete) ==
    LET gone == WhereId(d.source_files, id)
    IN get_cursor(d, Return([d EXCEPT !.source_files = @ \ gone,
                                      !.pytest_files = Detach(@, Ids(gone), onDelete),
                                      !.coverage_issues = Detach(@, Ids(gone), onDelete)],
                            gone # {}))

\* The point lookups, each with the rows that match its key.
LookupsById ==
    {"get_source_file_by_id", "get_pytest_file_by_id", "get_pytest_error_by_id",
     "get_coverage_issue_by_id", "get_coverage_branch_by_id",
     "get_next_pytest_error", "get_next_pytest_error_dict"}
LookupsByPath ==
    {"get_source_file_by_path", "get_pytest_file_by_path", "get_pytest_file",
     "get_source_file"}

\* The rows of the table a lookup reads that its WHERE clause selects.
Matching(d, op, key) ==
    CASE op = "get_source_file_by_id" -> {r \in d.source_files : r.id = key}
      [] op = "get_pytest_file_by_id" -> {r \in d.pytest_files : r.id = key}
      [] op = "get_pytest_error_by_id" -> {r \in d.pytest_errors : r.id = key}
      [] op = "get_coverage_issue_by_id" -> {r \in d.coverage_issues : r.id = key}
      [] op = "get_coverage_branch_by_id" -> {r \in d.coverage_branches : r.id = key}
      [] op = "get_next_pytest_error" -> {r \in d.pytest_errors : r.test_file_id = key}
      [] op = "get_next_pytest_error_dict" ->
           {r \in d.pytest_errors : key = 0 \/ r.test_file_id = key}
      [] op \in {"get_source_file_by_path", "get_source_file"} ->
           {r \in d.source_files : r.file_path = key}
      [] op \in {"get_pytest_file_by_path", "get_pytest_file"} ->
           {r \in d.pytest_files : r.file_path = key}

Lookup(d, op, key) ==
    CASE op = "get_source_file_by_id" -> get_source_file_by_id(d, key)
      [] op = "get_pytest_file_by_id" -> get_pytest_file_by_id(d, key)
      [] op = "get_pytest_error_by_id" -> get_pytest_error_by_id(d, key)
      [] op = "get_coverage_issue_by_id" -> get_coverage_issue_by_id(d, key)
      [] op = "get_coverage_branch_by_id" -> get_coverage_branch_by_id(d, key)
      [] op = "get_next_pytest_error" -> get_next_pytest_error(d, key)
      [] op = "get_next_pytest_error_dict" -> get_next_pytest_error_dict(d, key)
      [] op = "get_source_file_by_path" -> get_source_file_by_path(d, key)
      [] op = "get_pytest_file_by_path" -> SelectOne(d, get_pytest_file_by_path(d, key))
      [] op = "get_pytest_file" -> get_pytest_file(d, key)
      [] op = "get_source_file" -> get_source_file(d, key)

-----------------------------------------------------------------------------
(* tools/formatter: formatter_tool.py, lib/autoflake.py, isort.py, black.py *)

ExitCodes == {0, 1}

\* run_autoflake, run_isort, run_black: subprocess.run, then
\* `if result.returncode != 0: raise RuntimeError(...)`, else the result.
run_autoflake(code) == [raised |-> code # 0, returncode |-> code]
run_isort(code) == [raised |-> code # 0, returncode |-> code]
run_black(code) == [raised |-> code # 0, returncode |-> code]

Raised(calls, exc) == [calls |-> calls, raised |-> TRUE, ret |-> exc]
Returned(calls, v) == [calls |-> calls, raised |-> FALSE, ret |-> v]

\* formatter(file_path): the three formatters in turn, none of the calls
\* guarded; codes are the exit codes autoflake, isort and black would give.
formatter(codes) ==
    LET autoflake_result == run_autoflake(codes[1])
        isort_result == run_isort(codes[2])
        black_result == run_black(codes[3])
        all_success == /\ autoflake_result.returncode = 0
                       /\ isort_result.returncode = 0
                       /\ black_result.returncode = 0
        status == IF all_success THEN "Success" ELSE "Failure"
        message == IF all_success THEN "Code formatting completed successfully"
                   ELSE "Some formatters failed"
    IN IF autoflake_result.raised
       THEN Raised(<<"autoflake">>, "RuntimeError")
       ELSE IF isort_result.raised
       THEN Raised(<<"autoflake", "isort">>, "RuntimeError")
       ELSE IF black_result.raised
       THEN Raised(<<"autoflake", "isort", "black">>, "RuntimeError")
       ELSE Returned(<<"autoflake", "isort", "black">>,
                     ToolResult(status, message,
                                {NextAction(Function("flake8_report"), {}, {})},
                                NoItems))

-----------------------------------------------------------------------------
(* tools/linter: flake8_report.py, lib/flake8.py, pylint_tool.py, lib/pylint.py *)

\* call_tool(func)
call_tool(name) == <<"Call mcp tool", name>>

\* What flake8 left in the report file: no file, text that is not JSON, JSON
\* that is not an object of lists, an object without issues, one with issues.
Flake8Reports == {"missing", "malformed", "not_a_mapping", "empty", "issues"}

\* run_flake8_command: (True, "") when flake8 exits 0, else (False, message)
run_flake8_command_Always(code) == TRUE
run_flake8_command(code) == code = 0

\* The issues of a report that is a JSON object of lists, in file order.
Flake8Issues(report) == IF report = "issues" THEN <<"E501", "W291">> ELSE <<>>

\* process_flake8_issues: [] for a missing file and for a JSONDecodeError;
\* any other exception (data.items() of a list) is raised again.
process_flake8_issues(report) ==
    CASE report \in {"missing", "malformed", "empty"} -> [raised |-> FALSE, ret |-> <<>>]
      [] report = "not_a_mapping" -> [raised |-> TRUE, ret |-> <<>>]
      [] report = "issues" -> [raised |-> FALSE, ret |-> Flake8Issues(report)]

\* flake8_report(file_path): `except Exception: raise` after the StopIteration
\* branch, so what process_flake8_issues raises leaves the tool.
flake8_report(code, report) ==
    LET success == run_flake8_command(code)
        all_warnings == process_flake8_issues(report)
    IN IF ~success
       THEN Returned(<<"flake8">>, ToolResult("Error", "Flake8 failed", {}, NoItems))
       ELSE IF all_warnings.raised
       THEN Raised(<<"flake8">>, "AttributeError")
       ELSE IF all_warnings.ret = <<>>
       THEN Returned(<<"flake8">>,
                     ToolResult("Success", "No flake errors found", {},
                                [success_message |-> call_tool("pylint_report")]))
       ELSE Returned(<<"flake8">>,
                     ToolResult("Continue",
                                <<"Flake8 error found:", all_warnings.ret[1]>>, {},
                                [continue_message |-> call_tool("flake8_report")]))

\* What pylint wrote to stdout: nothing, text that is not JSON, "[]", errors.
PylintStdouts == {"", "malformed", "[]", "errors"}

\* get_pylint_json: json.loads(result.stdout) if result.stdout else []; the
\* exit code is not looked at.
PylintIssue(id, line) == [message_id |-> id, line |-> line]
PylintIssues(stdout) ==
    IF stdout = "errors"
    THEN <<PylintIssue("C0114", 1), PylintIssue("W0611", 3), PylintIssue("C0114", 7)>>
    ELSE <<>>

get_pylint_json(code, stdout) ==
    CASE stdout \in {"", "[]"} -> [raised |-> FALSE, ret |-> <<>>]
      [] stdout = "malformed" -> [raised |-> TRUE, ret |-> <<>>]
      [] stdout = "errors" -> [raised |-> FALSE, ret |-> PylintIssues(stdout)]

\* group_pylint_results: the errors grouped by "<message_id>-<symbol>" in a
\* defaultdict, so the groups are in the order their first error came in.
RECURSIVE GroupKeys(_, _)
GroupKeys(results, k) ==
    IF k = 0 THEN <<>>
    ELSE LET keys == GroupKeys(results, k - 1)
         IN IF \E g \in DOMAIN keys : keys[g] = results[k].message_id THEN keys
            ELSE Append(keys, results[k].message_id)

group_pylint_results(results) ==
    LET keys == GroupKeys(results, Len(results))
    IN [g \in DOMAIN keys |->
          [key |-> keys[g],
           errors |-> SelectSeq(results, LAMBDA e : e.message_id = keys[g])]]

\* get_pylint_error(path), which pylint_report returns.
get_pylint_error(code, stdout) ==
    LET pylint_results == get_pylint_json(code, stdout)
    IN IF pylint_results.raised
       THEN Raised(<<"pylint">>, "JSONDecodeError")
       ELSE IF pylint_results.ret = <<>>
       THEN Returned(<<"pylint">>,
                     ToolResult("Success", "No pylint errors found", {}, NoItems))
       ELSE LET grouped_errors == group_pylint_results(pylint_results.ret)
            IN IF grouped_errors = <<>>
               THEN Returned(<<"pylint">>,
                             ToolResult("Success", "No pylint errors found", {}, NoItems))
               ELSE Returned(<<"pylint">>,
                             ToolResult("Continue",
                                        <<"Pylint error found:", grouped_errors[1]>>,
                                        {}, NoItems))

pylint_report(code, stdout) == get_pylint_error(code, stdout)

-----------------------------------------------------------------------------
(* tools/vulture/dead_code_report.py, utils/decorators.py                  *)

\* vulture exits 0 (no issues), 3 (dead code found) or otherwise on failure.
VultureExitCodes == {0, 1, 3}
VultureStdouts == {"", "unused function"}
PathStates == {"exists", "missing", "unreadable"}

\* run_vulture: "" unless the exit code is 0 or 3
run_vulture(code, stdout) == IF code \notin {0, 3} THEN "" ELSE stdout

\* exception_handler(): the default_return dictionary, returned in place of
\* any exception of the decorated function.
default_return ==
    PyDict([Status |-> "Error", Message |-> "An unexpected error occurred",
            Instructions |-> "Please check the logs for more details."])

\* generate_dead_code_report(path) under @exception_handler(); "unreadable":
\* Path(path).exists() raises (PermissionError).
generate_dead_code_report(pathState, code, stdout) ==
    LET output == run_vulture(code, stdout)
    IN IF pathState = "unreadable"
       THEN Returned(<<>>, default_return)
       ELSE IF pathState = "missing"
       THEN Returned(<<>>, ToolResult("Error", "Path does not exist", {}, NoItems))
       ELSE IF output = ""
       THEN Returned(<<"vulture">>,
                     ToolResult("Success", "No dead code found or vulture failed to run.",
                                {}, NoItems))
       ELSE Returned(<<"vulture">>,
                     ToolResult("Success", "Found dead code issues", {},
                                [data |-> "detailed_report"]))

-----------------------------------------------------------------------------
(* tools/testing: pytest.py, files.py, utils/file_paths.py                 *)

\* The registered next_pytest_error and delete_pytest_error of pytest.py.
database_disabled ==
    PyDict([status |-> "database_disabled",
            message |-> "Database functionality has been disabled in this version."])

next_pytest_error_Stored(F) ==
    Returned(<<>>, IF pytest_errors = {} THEN database_disabled
                   ELSE PyDict([status |-> "Continue", message |-> "stored error"]))
next_pytest_error(F) == Returned(<<>>, database_disabled)
delete_pytest_error_tool(node) == Returned(<<>>, database_disabled)

\* source_to_test_path(source_path): ValueError for an empty path and for a
\* file that is not a .py file, else the path of the test file.
ToolSourcePaths == {"s1.py", "", "notes.txt"}
TestPathOf(P) == IF P = "s1.py" THEN "t1.py" ELSE "t2.py"

source_to_test_path(P) ==
    IF P \in {"", "notes.txt"}
    THEN Raised(<<>>, "ValueError")
    ELSE Returned(<<>>, PyStr(TestPathOf(P)))

\* create_unittest_file(source_path): None when the source is not a file or
\* its path is refused (ValueError caught); else both files are saved and
\* the test path, a str, is returned.
create_unittest_file(d, P, isFile) ==
    LET src == save_source_file_to_db(d, P, 0)
        test_path == source_to_test_path(P)
    IN IF ~isFile THEN Return(d, PyNone)
       ELSE IF test_path.raised THEN Return(src.db, PyNone)
       ELSE Return(save_test_file_to_db(src.db, test_path.ret.value, P, 0, 0).db,
                   test_path.ret)

-----------------------------------------------------------------------------
(* The state machine.                                                      *)

NoChain == [stage |-> 0, tf |-> 0, first |-> {}, second |-> {}]

\* The rows of a path's children: the pytest_errors and collection errors
\* owned by the pytest_files row(s) of path F, the branches of a set of issues.
ErrorsOfPath(F) ==
    {e \in pytest_errors :
        \E f \in pytest_files : f.file_path = F /\ f.id = e.test_file_id}
CollectionErrorsOfPath(F) ==
    {e \in pytest_collection_errors :
        \E f \in pytest_files : f.file_path = F /\ f.id = e.test_file_id}
BranchesOf(issues) ==
    {b \in coverage_branches : b.coverage_issue_id \in Ids(issues)}

Init ==
    /\ source_files = {}
    /\ pytest_files = {}
    /\ pytest_errors = {}
    /\ pytest_collection_errors = {}
    /\ coverage_issues = {}
    /\ coverage_branches = {}
    /\ now = 0
    /\ last = [op |-> "init", args |-> <<>>, ret |-> 0, raised |-> FALSE,
               failed |-> FALSE, before |-> 0]
    /\ chain = NoChain
    /\ conns = qa_connection.conns
    /\ trace = <<>>

\* Row ids stay within the model's bound.
WithinIds(d) ==
    /\ Max(Ids(d.pytest_errors)) <= MaxId
    /\ Max(Ids(d.pytest_collection_errors)) <= MaxId
    /\ Max(Ids(d.coverage_issues)) <= MaxId
    /\ Max(Ids(d.coverage_branches)) <= MaxId

\* The fail points an action draws from: all of them, or none.
WithinFileIds(d) ==
    /\ WithinIds(d)
    /\ Max(Ids(d.source_files)) <= MaxId
    /\ Max(Ids(d.pytest_files)) <= MaxId

Fails(points, mayFail) == IF mayFail THEN points ELSE {0}

\* The clock advances between calls.
Tick ==
    /\ now < MaxClock
    /\ now' = now + 1
    /\ UNCHANGED <<tables, last, chain, conns, trace>>

SaveTestResults(paths, summaries, lists, mayFail) ==
    \E F \in paths, S \in summaries, E \in lists :
      \E fail \in Fails(SaveTestResultsFailPoints(DB, F, E), mayFail) :
        LET run == save_test_results_to_db(DB, F, S, E, fail)
        IN /\ WithinFileIds(run.db)
           /\ SetDB(run.db)
           /\ last' = Call("save_test_results_to_db", <<F, S, E>>, run, fail,
                        Cardinality(ErrorsOfPath(F)))
           /\ chain' = NoChain
           /\ UNCHANGED <<now, conns, trace>>

\* run_pytest when pytest collected tests (exit code other than 5)
\* Runs with no, one and two failing tests.
RunLists == {<<>>, OneError, <<"n1", "n2">>}

RunPytestCollected(paths, lists) ==
    \E F \in paths, E \in lists :
        LET run == run_pytest(DB, F, FALSE, E)
        IN /\ WithinFileIds(run.db)
           /\ SetDB(run.db)
           /\ last' = Call("run_pytest", <<F, FALSE, E>>, run, 0,
                        Cardinality(ErrorsOfPath(F)))
           /\ chain' = NoChain
           /\ UNCHANGED <<now, conns, trace>>

\* run_pytest when pytest exits with code 5, no tests collected
RunPytestNoTests(paths) ==
    \E F \in paths :
        LET run == run_pytest(DB, F, TRUE, <<>>)
        IN /\ WithinFileIds(run.db)
           /\ SetDB(run.db)
           /\ last' = Call("run_pytest", <<F, TRUE, <<>>>>, run, 0,
                        Cardinality(CollectionErrorsOfPath(F)))
           /\ chain' = NoChain
           /\ UNCHANGED <<now, conns, trace>>

SaveSourceFile(paths, mayFail) ==
    \E P \in paths :
      \E fail \in Fails(SaveSourceFileFailPoints(DB, P), mayFail) :
        LET run == save_source_file_to_db(DB, P, fail)
        IN /\ WithinFileIds(run.db)
           /\ SetDB(run.db)
           /\ last' = Call("save_source_file_to_db", <<P>>, run, fail,
                        Cardinality({r \in source_files : r.file_path = P}))
           /\ chain' = NoChain
           /\ UNCHANGED <<now, conns, trace>>

SaveTestFile(tpaths, spaths, mayFail) ==
    \E T \in tpaths, P \in spaths :
      \E failSrc \in Fails(SaveSourceFileFailPoints(DB, P), mayFail) :
        \E fail \in Fails(SaveTestFileFailPoints(DB, T), mayFail) :
          LET run == save_test_file_to_db(DB, T, P, failSrc, fail)
          IN /\ SetDB(run.db)
             /\ last' = Call("save_test_file_to_db", <<T, P>>, run, failSrc + fail,
                        Cardinality({r \in pytest_files : r.file_path = T}))
             /\ chain' = NoChain
             /\ UNCHANGED <<now, conns, trace>>

\* get_next_pytest_error(test_file) for a test file row of the database
GetNextPytestError ==
    \E tf \in pytest_files :
        LET run == get_next_pytest_error(DB, tf.id)
        IN /\ SetDB(run.db)
           /\ last' = Call("get_next_pytest_error", <<tf.id>>, run, 0,
                        0)
           /\ chain' = IF chain.stage = 2 /\ chain.tf = tf.id
                       THEN [chain EXCEPT !.stage = 3, !.second = run.ret]
                       ELSE IF run.ret # {}
                       THEN [stage |-> 1, tf |-> tf.id, first |-> run.ret,
                             second |-> {}]
                       ELSE NoChain
           /\ UNCHANGED <<now, conns, trace>>

DeletePytestError ==
    \E node \in NodeIds :
        LET run == delete_pytest_error(DB, node)
        IN /\ SetDB(run.db)
           /\ last' = Call("delete_pytest_error", <<node>>, run, 0,
                        0)
           /\ chain' = IF /\ chain.stage = 1
                          /\ \E e \in chain.first : e.node_id = node
                       THEN [chain EXCEPT !.stage = 2]
                       ELSE NoChain
           /\ UNCHANGED <<now, conns, trace>>

\* The caller's loop over the errors of a test file T:
\*     e := get_next_pytest_error(T); if e is absent stop;
\*     delete_pytest_error(e.node_id)
\* chain.stage is 10 while the loop holds an error to delete, 11 when it is
\* about to ask for the next one, 12 when it has stopped; chain.second is
\* the errors of T when the loop started and trace the node ids deleted.
LoopLists == {<<"n1">>, <<"n1", "n1">>, <<"", "n1">>}

LoopGetNext ==
    \E tf \in pytest_files :
        LET run == get_next_pytest_error(DB, tf.id)
            start == {e \in pytest_errors : e.test_file_id = tf.id}
        IN /\ chain.stage \in {0, 11}
           /\ chain.stage = 11 => tf.id = chain.tf
           /\ SetDB(run.db)
           /\ last' = Call("get_next_pytest_error", <<tf.id>>, run, 0,
                           Cardinality(start))
           /\ chain' = [stage |-> IF run.ret = {} THEN 12 ELSE 10,
                        tf |-> tf.id, first |-> run.ret,
                        second |-> IF chain.stage = 0 THEN start ELSE chain.second]
           /\ trace' = IF chain.stage = 0 THEN <<>> ELSE trace
           /\ UNCHANGED <<now, conns>>

LoopDelete ==
    \E e \in chain.first :
        LET run == delete_pytest_error(DB, e.node_id)
        IN /\ chain.stage = 10
           /\ SetDB(run.db)
           /\ last' = Call("delete_pytest_error", <<e.node_id>>, run, 0,
                           Cardinality({r \in pytest_errors : r.node_id = e.node_id}))
           /\ chain' = [chain EXCEPT !.stage = 11]
           /\ trace' = Append(trace, e.node_id)
           /\ UNCHANGED <<now, conns>>

UpdateSourceFile ==
    \E id \in Ids(source_files) \cup {NextRowId(source_files)},
       hashOpt \in {{}} \cup {{h} : h \in Hashes} :
        LET run == update_source_file(DB, id, hashOpt)
        IN /\ SetDB(run.db)
           /\ last' = Call("update_source_file", <<id, hashOpt>>, run, 0,
                        Cardinality({r \in source_files : r.id = id}))
           /\ chain' = NoChain
           /\ UNCHANGED <<now, conns, trace>>

UpdatePytestFile ==
    \E id \in Ids(pytest_files) \cup {NextRowId(pytest_files)},
       sfidOpt \in {{}} \cup {{i} : i \in Ids(source_files)},
       summaryOpt \in {{}} \cup {{JsonDumps(s)} : s \in Summaries} :
        LET run == update_pytest_file(DB, id, sfidOpt, summaryOpt)
        IN /\ SetDB(run.db)
           /\ last' = Call("update_pytest_file", <<id, sfidOpt, summaryOpt>>, run, 0,
                        Cardinality({r \in pytest_files : r.id = id}))
           /\ chain' = NoChain
           /\ UNCHANGED <<now, conns, trace>>

\* The coverage_issues rows of path P that refer to no source_files row of P:
\* what delete_source_file leaves behind.
StaleIssues(P) ==
    {i \in coverage_issues :
        i.file_path = P /\ i.source_file_id \notin Ids(SourceFileLookup(DB, P))}

SaveCoverageIssues(paths, lists, mayFail) ==
    \E P \in paths, issues \in lists :
      \E fail \in Fails(SaveCoverageFailPoints(DB, P, issues), mayFail) :
        LET run == save_coverage_issues_to_db(DB, P, issues, fail)
        IN /\ WithinFileIds(run.db)
           /\ SetDB(run.db)
           /\ last' = Call("save_coverage_issues_to_db", <<P, issues>>, run, fail,
                        Cardinality({i \in coverage_issues : i.file_path = P}))
           /\ chain' = [NoChain EXCEPT !.first = StaleIssues(P)]
           /\ UNCHANGED <<now, conns, trace>>

DeleteCoverageIssue ==
    \E id \in Ids(coverage_issues) \cup {NextRowId(coverage_issues)} :
        LET run == delete_coverage_issue(DB, id)
        IN /\ SetDB(run.db)
           /\ last' = Call("delete_coverage_issue", <<id>>, run, 0,
                        Cardinality(BranchesOf({i \in coverage_issues : i.id = id})))
           /\ chain' = NoChain
           /\ UNCHANGED <<now, conns, trace>>

DeleteCoverageIssuesByFilePath ==
    \E P \in SrcPaths :
        LET run == delete_coverage_issues_by_file_path(DB, P)
        IN /\ SetDB(run.db)
           /\ last' = Call("delete_coverage_issues_by_file_path", <<P>>, run, 0,
                        Cardinality(BranchesOf({i \in coverage_issues : i.file_path = P})))
           /\ chain' = NoChain
           /\ UNCHANGED <<now, conns, trace>>

DeleteCoverageIssuesBySourceFileId ==
    \E sfid \in Ids(source_files) :
        LET run == delete_coverage_issues_by_source_file_id(DB, sfid)
        IN /\ SetDB(run.db)
           /\ last' = Call("delete_coverage_issues_by_source_file_id", <<sfid>>, run, 0,
                        Cardinality(BranchesOf({i \in coverage_issues :
                                                   i.source_file_id = sfid})))
           /\ chain' = NoChain
           /\ UNCHANGED <<now, conns, trace>>

UpdateCoverageIssue ==
    \E id \in Ids(coverage_issues),
       exclOpt \in {{}, {TRUE}},
       sfidOpt \in {{}} \cup {{i} : i \in Ids(source_files)} :
        LET run == update_coverage_issue(DB, id, exclOpt, sfidOpt)
        IN /\ SetDB(run.db)
           /\ last' = Call("update_coverage_issue", <<id, exclOpt, sfidOpt>>, run, 0,
                        Cardinality({r \in coverage_issues : r.id = id}))
           /\ chain' = NoChain
           /\ UNCHANGED <<now, conns, trace>>

GetNextCoverageIssue ==
    \E pathOpt \in {{}} \cup {{P} : P \in SrcPaths} :
      \E fail \in GetNextCoverageFailPoints(DB, pathOpt) :
        LET run == get_next_coverage_issue(DB, pathOpt, fail)
        IN /\ SetDB(run.db)
           /\ last' = Call("get_next_coverage_issue", <<pathOpt>>, run, fail,
                        0)
           /\ chain' = NoChain
           /\ UNCHANGED <<now, conns, trace>>

\* create_source_file(file_path) for a path the caller found no row for
CreateSourceFile(paths) ==
    \E P \in paths, hash \in Hashes :
        LET run == create_source_file(DB, P, hash)
        IN /\ SourceFileLookup(DB, P) = {}
           /\ WithinFileIds(run.db)
           /\ SetDB(run.db)
           /\ last' = Call("create_source_file", <<P, hash>>, run, 0, 0)
           /\ chain' = NoChain
           /\ UNCHANGED <<now, conns, trace>>

\* create_pytest_file(file_path) for a path the caller found no row for
CreatePytestFile(paths) ==
    \E F \in paths :
        LET run == get_cursor(DB, create_pytest_file(DB, F, 0, JsonDumps(EmptySummary)))
        IN /\ TestFileLookup(DB, F) = {}
           /\ WithinFileIds(run.db)
           /\ SetDB(run.db)
           /\ last' = Call("create_pytest_file", <<F>>, run, 0, 0)
           /\ chain' = NoChain
           /\ UNCHANGED <<now, conns, trace>>

\* create_pytest_error(node_id, test_file_id, ...) and
\* create_collection_error(node_id, test_file_id, ...), for any test_file_id
CreateError ==
    \E op \in {"create_pytest_error", "create_collection_error"},
       node \in {OneError[1]}, tfid \in 1..MaxId :
        LET run == get_cursor(DB, IF op = "create_pytest_error"
                                  THEN create_pytest_error(DB, node, tfid)
                                  ELSE create_collection_error(DB, node, tfid))
        IN /\ WithinIds(run.db)
           /\ SetDB(run.db)
           /\ last' = Call(op, <<node, tfid>>, run, 0,
                           Cardinality({r \in pytest_files : r.id = tfid}))
           /\ chain' = NoChain
           /\ UNCHANGED <<now, conns, trace>>

\* delete_pytest_file(file_id)
DeletePytestFile ==
    \E id \in Ids(pytest_files) \cup {NextRowId(pytest_files)},
       onDelete \in OnDeleteTestFile :
        LET run == delete_pytest_file(DB, id, onDelete)
        IN /\ SetDB(run.db)
           /\ last' = Call("delete_pytest_file", <<id, onDelete>>, run, 0,
                           Cardinality({e \in pytest_errors \cup pytest_collection_errors :
                                          e.test_file_id = id}))
           /\ chain' = NoChain
           /\ UNCHANGED <<now, conns, trace>>

\* delete_source_file(file_id)
DeleteSourceFile ==
    \E id \in Ids(source_files) \cup {NextRowId(source_files)},
       onDelete \in OnDeleteActions :
        LET run == delete_source_file(DB, id, onDelete)
        IN /\ SetDB(run.db)
           /\ last' = Call("delete_source_file", <<id, onDelete>>, run, 0,
                           Cardinality(source_files))
           /\ chain' = NoChain
           /\ UNCHANGED <<now, conns, trace>>

\* get_coverage_issues_by_file_path(file_path)
GetCoverageIssuesByFilePath(paths) ==
    \E P \in paths :
        LET run == get_coverage_issues_by_file_path(DB, P)
        IN /\ SetDB(run.db)
           /\ last' = Call("get_coverage_issues_by_file_path", <<P>>, run, 0, 0)
           /\ chain' = NoChain
           /\ UNCHANGED <<now, conns, trace>>

\* A point lookup, by an id or by a path, of a row that is there or not
LookupRow ==
    \E op \in LookupsById \cup LookupsByPath :
      \E key \in IF op = "get_next_pytest_error_dict" THEN 0..MaxId
                 ELSE IF op \in LookupsById THEN 1..MaxId
                 ELSE {OneTest, OnePath, NoSuchPath} :
        LET run == Lookup(DB, op, key)
        IN /\ SetDB(run.db)
           /\ last' = Call(op, <<key>>, run, 0, Cardinality(Matching(DB, op, key)))
           /\ chain' = NoChain
           /\ UNCHANGED <<now, conns, trace>>

\* get_connection(name), for any name, with sqlite3.connect failing or not
GetConnection ==
    \E name \in DatabaseNames, opts \in ConnectOptions, fail \in ConnectFailPoints :
        LET run == get_connection(conns, name, opts, fail)
        IN /\ Len(run.conns.made) <= MaxConns
           /\ conns' = run.conns
           /\ last' = Call("get_connection", <<name, opts>>, run,
                           IF run.raised THEN fail ELSE 0,
                           Cardinality({e \in conns.cache : e.name = name}))
           /\ trace' = <<>>
           /\ chain' = NoChain
           /\ UNCHANGED <<tables, now>>

\* init_database(db_name)
InitDatabase ==
    \E name \in DatabaseNames, fail \in ConnectFailPoints :
        LET run == init_database(conns, name, fail)
        IN /\ Len(run.conns.made) <= MaxConns
           /\ conns' = run.conns
           /\ last' = Call("init_database", <<name>>, run,
                           IF run.raised THEN fail ELSE 0,
                           Cardinality({e \in conns.cache : e.name = name}))
           /\ trace' = <<>>
           /\ chain' = NoChain
           /\ UNCHANGED <<tables, now>>

\* One "with get_cursor() as cursor:" block whose body touches no table.
UseCursor ==
    \E body \in BodyOutcomes :
        LET run == get_cursor_calls(body)
        IN /\ last' = Call("get_cursor", <<body>>, run, 0, 0)
           /\ trace' = run.calls
           /\ chain' = NoChain
           /\ conns' = [conns EXCEPT !.used = @ \cup {CursorConnection(conns)}]
           /\ UNCHANGED <<tables, now>>

\* A tool call, as the record of the last call: what it returned or raised;
\* toolFailed says that a subprocess of the call exited non-zero or gave
\* malformed output.
ToolCall(op, args, run, toolFailed) ==
    Call(op, args, run, IF toolFailed THEN 1 ELSE 0, 0)

\* formatter(file_path)
Formatter ==
    \E codes \in ExitCodes \X ExitCodes \X ExitCodes :
        LET run == formatter(codes)
        IN /\ last' = ToolCall("formatter", <<codes>>, run, \E k \in 1..3 : codes[k] # 0)
           /\ trace' = run.calls
           /\ chain' = NoChain
           /\ UNCHANGED <<tables, now, conns>>

\* flake8_report(file_path)
Flake8Report ==
    \E code \in ExitCodes, report \in Flake8Reports :
        LET run == flake8_report(code, report)
        IN /\ last' = ToolCall("flake8_report", <<code, report>>, run,
                             code # 0 \/ report \in {"malformed", "not_a_mapping"})
           /\ trace' = run.calls
           /\ chain' = NoChain
           /\ UNCHANGED <<tables, now, conns>>

\* pylint_report(path)
PylintReport ==
    \E code \in ExitCodes, stdout \in PylintStdouts :
        LET run == pylint_report(code, stdout)
        IN /\ last' = ToolCall("pylint_report", <<code, stdout>>, run,
                             code # 0 \/ stdout = "malformed")
           /\ trace' = run.calls
           /\ chain' = NoChain
           /\ UNCHANGED <<tables, now, conns>>

\* generate_dead_code_report(path)
GenerateDeadCodeReport ==
    \E pathState \in PathStates, code \in VultureExitCodes, stdout \in VultureStdouts :
        LET run == generate_dead_code_report(pathState, code, stdout)
        IN /\ last' = ToolCall("generate_dead_code_report", <<pathState, code, stdout>>, run,
                             pathState = "exists" /\ code \notin {0, 3})
           /\ trace' = run.calls
           /\ chain' = NoChain
           /\ UNCHANGED <<tables, now, conns>>

\* next_pytest_error(test_file_path), the registered tool
NextPytestErrorTool ==
    \E F \in TestPaths :
        LET run == next_pytest_error(F)
        IN /\ last' = ToolCall("next_pytest_error", <<F>>, run, FALSE)
           /\ trace' = run.calls
           /\ chain' = NoChain
           /\ UNCHANGED <<tables, now, conns>>

\* delete_pytest_error(node_id), the registered tool
DeletePytestErrorTool ==
    \E node \in NodeIds :
        LET run == delete_pytest_error_tool(node)
        IN /\ last' = ToolCall("delete_pytest_error_tool", <<node>>, run, FALSE)
           /\ trace' = run.calls
           /\ chain' = NoChain
           /\ UNCHANGED <<tables, now, conns>>

\* source_to_test_path(source_path), registered as get_testfile
SourceToTestPath ==
    \E P \in ToolSourcePaths :
        LET run == source_to_test_path(P)
        IN /\ last' = ToolCall("source_to_test_path", <<P>>, run, FALSE)
           /\ trace' = run.calls
           /\ chain' = NoChain
           /\ UNCHANGED <<tables, now, conns>>

\* create_unittest_file(source_path)
CreateUnittestFile ==
    \E P \in ToolSourcePaths, isFile \in BOOLEAN :
        LET run == create_unittest_file(DB, P, isFile)
        IN /\ P = "" => ~isFile
           /\ WithinIds(run.db)
           /\ SetDB(run.db)
           /\ last' = Call("create_unittest_file", <<P, isFile>>, run, 0, 0)
           /\ trace' = <<>>
           /\ chain' = NoChain
           /\ UNCHANGED <<now, conns>>

\* run_pytest when pytest's report cannot be used
RunPytestBadOutput(paths) ==
    \E F \in paths, how \in PytestBadOutputs :
        LET run == run_pytest_bad_output(DB, F, how)
        IN /\ SetDB(run.db)
           /\ last' = Call("run_pytest", <<F, FALSE, <<>>, how>>, run, 1, 0)
           /\ trace' = <<>>
           /\ chain' = NoChain
           /\ UNCHANGED <<now, conns>>

\* result.model_dump() of a tool result
ModelDump ==
    \E tr \in ToolResultInputs :
        LET run == ToolResult_model_dump(tr)
        IN /\ last' = Call("model_dump", <<tr>>, run, 0, 0)
           /\ trace' = <<>>
           /\ chain' = NoChain
           /\ UNCHANGED <<tables, now, conns>>

-----------------------------------------------------------------------------
(* Specifications.                                                         *)

\* Recording test results and working through the stored errors.
NextResults ==
    \/ SaveTestResults(TestPaths, Summaries, ErrLists, TRUE)
    \/ RunPytestCollected(TestPaths, ErrLists)
    \/ GetNextPytestError
    \/ DeletePytestError

SpecResults == Init /\ [][NextResults]_vars

\* Recording and maintaining coverage issues.
NextCov ==
    \/ SaveCoverageIssues(SrcPaths, IssueLists, FALSE)
    \/ SaveCoverageIssues(SrcPaths, ShortIssueLists, TRUE)
    \/ SaveCoverageIssues({OnePath}, {<<NoTypeEntry>>}, FALSE)
    \/ DeleteCoverageIssue
    \/ DeleteCoverageIssuesByFilePath
    \/ DeleteCoverageIssuesBySourceFileId

SpecCov == Init /\ [][NextCov]_vars

\* Registering source and test files and reading the next coverage issue.
NextFiles ==
    \/ SaveSourceFile(SrcPaths, TRUE)
    \/ SaveTestFile(TestPaths, SrcPaths, TRUE)
    \/ SaveCoverageIssues({OnePath}, {OneIssue}, FALSE)
    \/ GetNextCoverageIssue

SpecFiles == Init /\ [][NextFiles]_vars

\* Updating the rows of one source file, its test file and its issue.
NextUpdate ==
    \/ Tick
    \/ SaveTestFile({OneTest}, {OnePath}, FALSE)
    \/ SaveCoverageIssues({OnePath}, {OneIssue}, FALSE)
    \/ UpdateSourceFile
    \/ UpdatePytestFile
    \/ UpdateCoverageIssue

SpecUpdate == Init /\ [][NextUpdate]_vars

\* Every operation that may create a source_files or pytest_files row.
NextPaths ==
    \/ SaveTestResults(TestPaths, {OneSummary}, {<<>>}, TRUE)
    \/ SaveTestFile(TestPaths, {OnePath}, TRUE)
    \/ SaveSourceFile({OnePath}, TRUE)
    \/ SaveCoverageIssues({OnePath}, {OneIssue}, TRUE)
    \/ RunPytestCollected({OneTest}, {OneError})
    \/ RunPytestNoTests({OneTest})

SpecPaths == Init /\ [][NextPaths]_vars

\* The entity modules: creating, saving and deleting rows for an empty and
\* a proper path.
NextCrud ==
    \/ CreateSourceFile({EmptyPath, OnePath})
    \/ CreatePytestFile({EmptyPath})
    \/ SaveSourceFile({EmptyPath}, FALSE)
    \/ SaveTestResults({EmptyPath}, {OneSummary}, {<<>>}, FALSE)
    \/ SaveCoverageIssues({EmptyPath, OnePath}, {BranchedIssue}, FALSE)
    \/ DeleteSourceFile
    \/ GetCoverageIssuesByFilePath({OnePath})

SpecCrud == Init /\ [][NextCrud]_vars

\* Point lookups over a database that test runs and coverage fill.
NextLookups ==
    \/ SaveTestResults({OneTest}, {OneSummary}, ErrLists, FALSE)
    \/ SaveCoverageIssues({OnePath}, {BranchedIssue}, FALSE)
    \/ DeletePytestError
    \/ LookupRow

SpecLookups == Init /\ [][NextLookups]_vars

\* Deleting the errors of a test node among those of two test files.
NextDelete ==
    \/ SaveTestResults(TestPaths, {OneSummary}, {<<n>> : n \in NodeIds}, FALSE)
    \/ SaveCoverageIssues({OnePath}, {BranchedIssue}, FALSE)
    \/ DeletePytestError

SpecDelete == Init /\ [][NextDelete]_vars

\* Parents and children written by the aggregate saves, failing or not, and
\* by the entity operations.
NextOrphans ==
    \/ SaveTestResults({OneTest}, {OneSummary}, {OneError}, TRUE)
    \/ RunPytestNoTests(TestPaths \ {OneTest})
    \/ SaveCoverageIssues({OnePath}, {BranchedIssue}, TRUE)
    \/ CreateError
    \/ DeletePytestFile
    \/ DeleteCoverageIssue

SpecOrphans == Init /\ [][NextOrphans]_vars

\* The fix-one-at-a-time loop, with no other writer while it runs.
NextLoop ==
    \/ (chain.stage \in {0, 12} /\ SaveTestResults(TestPaths, {OneSummary}, LoopLists, FALSE))
    \/ LoopGetNext
    \/ LoopDelete

SpecLoop ==
    Init /\ [][NextLoop]_vars /\ WF_vars(LoopGetNext) /\ WF_vars(LoopDelete)

\* Saves for two test files, failing or not, and for two source files.
NextFrame ==
    \/ SaveTestResults(TestPaths, {OneSummary}, {<<>>, OneError}, TRUE)
    \/ RunPytestNoTests({OneTest})
    \/ SaveCoverageIssues(SrcPaths, {BranchedIssue}, FALSE)

SpecFrame == Init /\ [][NextFrame]_vars

\* The connection manager.
NextConnections ==
    \/ GetConnection
    \/ InitDatabase
    \/ UseCursor

SpecConnections == Init /\ [][NextConnections]_vars

\* The tools of the server and the serialisation of their results.
NextTools ==
    \/ Formatter
    \/ Flake8Report
    \/ PylintReport
    \/ GenerateDeadCodeReport
    \/ RunPytestCollected({OneTest}, RunLists)
    \/ RunPytestNoTests({OneTest})
    \/ RunPytestBadOutput({OneTest})
    \/ NextPytestErrorTool
    \/ DeletePytestErrorTool
    \/ SourceToTestPath
    \/ CreateUnittestFile
    \/ ModelDump

SpecTools == Init /\ [][NextTools]_vars

-----------------------------------------------------------------------------
(* Properties.                                                             *)

\* C1: after save_test_results_to_db(F, S, E) returns, the pytest_errors rows
\* owned by F's pytest_files row are one row per element of E, in E's order,
\* whatever rows an earlier call left for F, and F's stored summary is S.
C1_ReplaceOnRerun ==
    (last.op = "save_test_results_to_db" /\ ~last.raised) =>
        LET F == last.args[1]
            S == last.args[2]
            E == last.args[3]
            rows == OrderById(ErrorsOfPath(F))
        IN /\ \E f \in pytest_files : f.file_path = F
           /\ \A f \in pytest_files :
                  f.file_path = F => JsonLoads(f.pytest_summary) = S
           /\ Len(rows) = Len(E)
           /\ \A k \in 1..Len(E) : rows[k].node_id = E[k]

\* A rerun: the call found error rows of F, and left exactly those of its E.
C1_Witness ==
    /\ last.op = "save_test_results_to_db"
    /\ ~last.raised
    /\ last.before > 0
    /\ Len(last.args[3]) > 0
    /\ Cardinality(ErrorsOfPath(last.args[1])) = Len(last.args[3])

\* C2: when save_test_results_to_db or save_coverage_issues_to_db raises
\* partway through its statements, the tables are as they were before the
\* call: nothing the call wrote is visible, nothing it deleted is missing.
C2_RollbackOnFailure ==
    [][(/\ last'.op \in {"save_test_results_to_db", "save_coverage_issues_to_db"}
        /\ last'.raised)
       => UNCHANGED tables]_vars

\* C3: after a test run recorded for a test file F, by save_test_results_to_db
\* or by run_pytest, the pytest_errors rows of F are those of the run's failing
\* tests and the pytest_collection_errors rows of F are those of the run: one
\* row when no test was collected, none otherwise.
C3_NoStaleRows ==
    (last.op \in {"save_test_results_to_db", "run_pytest"} /\ ~last.raised) =>
        LET F == last.args[1]
            E == last.args[3]
            collected == ~(last.op = "run_pytest" /\ last.args[2])
            rows == OrderById(ErrorsOfPath(F))
        IN /\ Len(rows) = Len(E)
           /\ \A k \in 1..Len(E) : rows[k].node_id = E[k]
           /\ Cardinality(CollectionErrorsOfPath(F)) = IF collected THEN 0 ELSE 1

\* C4: no coverage_branches row refers to a coverage_issues row that is gone:
\* each delete of an issue, by id, by path, by source file or inside
\* save_coverage_issues_to_db, takes the issue's branches with it.
C4_CascadeIntegrity ==
    \A b \in coverage_branches :
        \E i \in coverage_issues : i.id = b.coverage_issue_id

\* A delete by id that removed an issue owning branches.
C4_Witness ==
    /\ last.op = "delete_coverage_issue"
    /\ last.ret = TRUE
    /\ last.before > 0

\* C5: get_next_pytest_error(T) returns the row of the lowest id among the
\* rows stored for T, or nothing when T has none; after delete_pytest_error of
\* that row's node id the next call returns the lowest of the rows remaining
\* for T, which has a higher id, or nothing when none remain.
C5_NextErrorOrdering ==
    /\ (last.op = "get_next_pytest_error") =>
          LET mine == {e \in pytest_errors : e.test_file_id = last.args[1]}
          IN /\ (last.ret = {}) <=> (mine = {})
             /\ \A r \in last.ret :
                   /\ r \in mine
                   /\ \A e \in mine : r.id <= e.id
    /\ (chain.stage = 3) =>
          LET rest == {e \in pytest_errors : e.test_file_id = chain.tf}
          IN /\ chain.first \cap pytest_errors = {}
             /\ (chain.second = {}) <=> (rest = {})
             /\ \A r \in chain.second :
                   /\ r \in rest
                   /\ \A e \in rest : r.id <= e.id
                   /\ \A f \in chain.first : f.id < r.id

\* The second call of get / delete / get returned a row.
C5_Witness ==
    /\ chain.stage = 3
    /\ chain.second # {}

\* C6: update_source_file, update_pytest_file and update_coverage_issue called
\* on an existing row with no optional field return false and leave every
\* row, its updated_at included, as it was.
C6_NoFieldUpdateIsNoOp ==
    [][(/\ now' = now
        /\ last'.op \in {"update_source_file", "update_pytest_file",
                         "update_coverage_issue"}
        /\ last'.before > 0
        /\ \A k \in 2..Len(last'.args) : last'.args[k] = {})
       => (last'.ret = FALSE /\ UNCHANGED tables)]_vars

\* C7: a call of save_source_file_to_db or save_test_file_to_db that follows
\* a call with the same arguments returns what that call returned and inserts
\* no source_files and no pytest_files row.
C7_UpsertStability ==
    [][(/\ last.op \in {"save_source_file_to_db", "save_test_file_to_db"}
        /\ last'.op = last.op
        /\ last'.args = last.args)
       => (/\ last'.ret = last.ret
           /\ source_files' = source_files
           /\ pytest_files' = pytest_files)]_vars

\* C8: pytest_files holds at most one row per file_path and source_files
\* holds at most one row per file_path.
C8_OneRowPerPath ==
    /\ \A f, g \in pytest_files : f.file_path = g.file_path => f = g
    /\ \A f, g \in source_files : f.file_path = g.file_path => f = g

\* A repeated save_test_file_to_db: the path had its row, and still has one.
C8_Witness ==
    /\ last.op = "save_test_file_to_db"
    /\ ~last.failed
    /\ last.before = 1
    /\ Cardinality({f \in pytest_files : f.file_path = last.args[1]}) = 1
    /\ Cardinality({f \in source_files : f.file_path = last.args[2]}) = 1

\* The parent rows a report asks for: one per line entry, carrying the
\* entry's nested branches, then one per standalone branch, carrying it.
ExpectedIssues(issues) ==
    LET lines == SelectSeq(issues, LAMBDA e : e.type = "CoverageIssue")
        alone == SelectSeq(issues,
                     LAMBDA e : e.type = "CoverageBranch" /\ ~e.has_parent)
    IN [k \in 1..Len(lines) |->
            [line |-> lines[k].line_number, branches |-> lines[k].branches]]
       \o [k \in 1..Len(alone) |->
            [line |-> alone[k].source_line,
             branches |-> <<alone[k].source_line>>]]

\* C9: after save_coverage_issues_to_db(P, issues) returns, the
\* coverage_issues rows of P are one per line entry, with its line_number,
\* and one per standalone branch, with its source_line; each such row owns
\* exactly the branches of its entry; rows an earlier call wrote for P are
\* gone and no branch is left without its issue.
C9_SaveCoverageResult ==
    (last.op = "save_coverage_issues_to_db" /\ ~last.raised) =>
        LET P == last.args[1]
            want == ExpectedIssues(last.args[2])
            rows == OrderById({i \in coverage_issues : i.file_path = P})
        IN /\ Len(rows) = Len(want)
           /\ \A k \in 1..Len(want) :
                 LET owned == OrderById(BranchesOf({rows[k]}))
                 IN /\ rows[k].line_number = want[k].line
                    /\ Len(owned) = Len(want[k].branches)
                    /\ \A j \in 1..Len(owned) :
                          owned[j].source_line = want[k].branches[j]
           /\ Cardinality(BranchesOf(coverage_issues))
                 = Cardinality(coverage_branches)

\* A save over earlier rows of P, of a report with both kinds of entry.
C9_Witness ==
    /\ last.op = "save_coverage_issues_to_db"
    /\ ~last.raised
    /\ last.before > 0
    /\ last.args[2] = MixedIssues
    /\ Cardinality({i \in coverage_issues : i.file_path = last.args[1]}) = 2

\* C10: whenever a statement of a repository operation fails, the exception
\* reaches the caller; no operation turns the failure into a returned value.
C10_FailuresPropagate ==
    last.failed => last.raised

\* C11: when a formatter exits non-zero, formatter still runs autoflake,
\* isort and black, all three, and returns a ToolResult with status FAILURE;
\* when all three exit 0 it returns one with status SUCCESS.
C11_FormatterContinues ==
    last.op = "formatter" =>
        /\ trace = <<"autoflake", "isort", "black">>
        /\ ~last.raised
        /\ last.ret.cls = "ToolResult"
        /\ last.ret.status = (IF last.failed THEN "Failure" ELSE "Success")

Count(seq, x) == Cardinality({i \in DOMAIN seq : seq[i] = x})

\* C12: when the subprocess of formatter, flake8_report, pylint_report,
\* run_pytest or generate_dead_code_report exits non-zero or gives malformed
\* output, the tool raises nothing and returns a ToolResult with status ERROR
\* or EXCEPTION, or FAILURE for formatter.
C12_ToolFailuresAreValues ==
    (/\ last.op \in {"formatter", "flake8_report", "pylint_report", "run_pytest",
                     "generate_dead_code_report"}
     /\ last.failed) =>
        /\ ~last.raised
        /\ last.ret.cls = "ToolResult"
        /\ last.ret.status \in {"Error", "Exception"}
                               \cup (IF last.op = "formatter" THEN {"Failure"} ELSE {})

\* C13: in every use of get_cursor the cursor is closed last, exactly once;
\* a body that finishes normally (also by an early return) is followed by
\* exactly one commit and no rollback; a body that raises an exception
\* derived from Exception is followed by exactly one rollback and no commit,
\* and that exception reaches the caller; a body that raises an exception
\* that is not derived from Exception (KeyboardInterrupt) is followed by
\* neither, and that exception reaches the caller.
C13_CursorProtocol ==
    last.op = "get_cursor" =>
        LET body == last.args[1]
        IN /\ trace[1] = "cursor" /\ trace[2] = "body"
           /\ trace[Len(trace)] = "close" /\ Count(trace, "close") = 1
           /\ body \in {"end", "return"} =>
                 /\ trace = <<"cursor", "body", "commit", "close">>
                 /\ ~last.raised
           /\ body = "ValueError" =>
                 /\ trace = <<"cursor", "body", "rollback", "close">>
                 /\ last.raised /\ last.ret = body
           /\ body = "KeyboardInterrupt" =>
                 /\ trace = <<"cursor", "body", "close">>
                 /\ last.raised /\ last.ret = body

\* A body left by an early return, committed and closed.
C13_Witness ==
    /\ last.op = "get_cursor" /\ last.args[1] = "return"
    /\ Count(trace, "commit") = 1 /\ trace[Len(trace)] = "close"

\* C13 as stated: whatever exception the body raises, there is exactly one
\* rollback, no commit, and the exception reaches the caller.
C13_RollbackOnAnyException ==
    (last.op = "get_cursor" /\ last.raised) =>
        /\ Count(trace, "rollback") = 1
        /\ Count(trace, "commit") = 0
        /\ last.ret = last.args[1]

\* C14: over any sequence of get_connection calls, two calls return the same
\* connection exactly when they were given the same name, every connection
\* returned is the one cached for its name, and no name has a connection
\* cached for it twice.
C14_ConnectionSingleton ==
    /\ \A a, b \in conns.returned : (a.name = b.name) <=> (a.conn = b.conn)
    /\ conns.returned \subseteq conns.cache
    /\ \A i, j \in DOMAIN conns.made :
          (/\ conns.made[i].name = conns.made[j].name
           /\ conns.made[i].cached /\ conns.made[j].cached) => i = j

\* A repeated call for a cached name, with two names in use.
C14_Witness ==
    /\ last.op = "get_connection" /\ ~last.raised /\ last.before > 0
    /\ Cardinality({e.name : e \in conns.returned}) >= 2
    /\ Cardinality({e.conn : e \in conns.returned}) >= 2

\* C14 as stated: no name has a connection created for it twice.
C14_CreatedOncePerName ==
    \A i, j \in DOMAIN conns.made :
        conns.made[i].name = conns.made[j].name => i = j

\* C15: delete_pytest_error(node_id) removes the pytest_errors rows with that
\* node_id, of every test file, and no other row; it returns how many it
\* removed, 0 when there was none, and raises nothing; the other tables are
\* as before.
C15_DeleteByNodeId ==
    [][last'.op = "delete_pytest_error" =>
         LET gone == {e \in pytest_errors : e.node_id = last'.args[1]}
         IN /\ ~last'.raised
            /\ last'.ret = Cardinality(gone)
            /\ pytest_errors' = pytest_errors \ gone
            /\ UNCHANGED <<source_files, pytest_files, pytest_collection_errors,
                           coverage_issues, coverage_branches>>]_vars

\* A delete that removed two rows, of two test files.
C15_Witness ==
    /\ last.op = "delete_pytest_error" /\ ~last.raised /\ last.ret = 2
    /\ Cardinality(pytest_files) = 2
    /\ \A e \in pytest_errors : e.node_id # last.args[1]

\* C16: a repository operation called with an empty path raises before any
\* statement runs: the call raises, and no table ever holds a row with the
\* empty path.
C16_ValidationBeforeStorage ==
    /\ (/\ last.op \in {"create_source_file", "create_pytest_file",
                         "save_test_results_to_db", "save_coverage_issues_to_db",
                         "save_source_file_to_db"}
        /\ last.args[1] = EmptyPath) => last.raised
    /\ \A r \in source_files : r.file_path # EmptyPath
    /\ \A r \in pytest_files : r.file_path # EmptyPath
    /\ \A r \in coverage_issues : r.file_path # EmptyPath

\* C17: every registered tool, and generate_dead_code_report, returns in
\* every outcome a ToolResult whose status is one of the five statuses.
C17_UniformEnvelope ==
    last.op \in {"formatter", "flake8_report", "create_unittest_file",
                 "source_to_test_path", "run_pytest", "next_pytest_error",
                 "delete_pytest_error_tool", "pylint_report",
                 "generate_dead_code_report"} =>
        /\ ~last.raised
        /\ last.ret.cls = "ToolResult"
        /\ last.ret.status \in ToolStatus

\* C18: model_dump of a ToolResult returns a mapping with status and
\* message; without a next_action the key is left out; with one, given as a
\* NextAction or as a mapping, the entry is a mapping with instructions and
\* with mcp_tool, the name of the function referred to, and without tool.
C18_Serialization ==
    last.op = "model_dump" =>
        LET tr == last.args[1]
            na == CHOOSE x \in tr.next_action : TRUE
        IN /\ ~last.raised
           /\ {"status", "message"} \subseteq DOMAIN last.ret
           /\ last.ret["status"] = tr.status
           /\ last.ret["message"] = tr.message
           /\ tr.next_action = {} => "next_action" \notin DOMAIN last.ret
           /\ tr.next_action # {} =>
                 /\ "next_action" \in DOMAIN last.ret
                 /\ {"mcp_tool", "instructions"} \subseteq DOMAIN last.ret["next_action"]
                 /\ "tool" \notin DOMAIN last.ret["next_action"]
                 /\ na.cls = "NextAction" =>
                       last.ret["next_action"]["mcp_tool"] = na.tool.name

ReturnedIssueIds(d, path) == Ids(get_coverage_issues_by_file_path(d, path).ret)

\* C19: delete_source_file(id) of an existing row removes that source_files
\* row and no other and returns true; the coverage_issues rows with the
\* file's path are still there, with their branches, and
\* get_coverage_issues_by_file_path still returns them.
C19_DeleteDetaches ==
    [][(last'.op = "delete_source_file" /\ last'.args[1] \in Ids(source_files)) =>
         LET row == CHOOSE r \in source_files : r.id = last'.args[1]
             mine == {i \in coverage_issues : i.file_path = row.file_path}
         IN /\ ~last'.raised /\ last'.ret = TRUE
            /\ source_files' = source_files \ {row}
            /\ \A i \in mine : \E j \in coverage_issues' :
                  /\ j.id = i.id /\ j.file_path = i.file_path
                  /\ j.line_number = i.line_number /\ j.is_excluded = i.is_excluded
            /\ Ids(coverage_issues') = Ids(coverage_issues)
            /\ coverage_branches' = coverage_branches
            /\ Ids(mine) \subseteq ReturnedIssueIds(DB', row.file_path)]_vars

\* A source file deleted, its coverage issue and the issue's branch in place,
\* another source file left.
C19_Witness ==
    /\ last.op = "delete_source_file" /\ last.ret = TRUE /\ last.before = 2
    /\ Cardinality(source_files) = 1
    /\ \E i \in coverage_issues :
          /\ SourceFileLookup(DB, i.file_path) = {}
          /\ \E b \in coverage_branches : b.coverage_issue_id = i.id

\* C20: a lookup by id or by path, and a next-error lookup, for which no
\* row matches returns the absent value and raises nothing.
C20_NotFoundIsAbsent ==
    (last.op \in LookupsById \cup LookupsByPath /\ last.before = 0) =>
        (~last.raised /\ last.ret = {})

C22_LintStatus ==
    LET returned(st) == ~last.raised /\ last.ret.status = st
    IN /\ last.op = "pylint_report" =>
            LET stdout == last.args[2]
                issues == PylintIssues(stdout)
            IN /\ returned("Continue") <=> issues # <<>>
               /\ returned("Success") <=> stdout \in {"", "[]"}
               /\ returned("Continue") =>
                     /\ last.ret.message[2].key = issues[1].message_id
                     /\ last.ret.message[2].errors =
                           SelectSeq(issues,
                                     LAMBDA e : e.message_id = issues[1].message_id)
       /\ last.op = "flake8_report" =>
            LET code == last.args[1]
                report == last.args[2]
            IN /\ returned("Error") <=> code # 0
               /\ returned("Continue") <=> (code = 0 /\ Flake8Issues(report) # <<>>)
               /\ returned("Success") <=>
                     (code = 0 /\ report \in {"missing", "malformed", "empty"})
               /\ returned("Continue") => last.ret.message[2] = Flake8Issues(report)[1]

\* flake8 exited 0 and left a report with issues.
C22_Witness ==
    /\ last.op = "flake8_report" /\ ~last.raised
    /\ last.args[1] = 0 /\ last.ret.status = "Continue"

\* C23: run_pytest raises nothing; when pytest exits with code 5 it returns
\* ERROR, one more pytest_collection_errors row of the test file stored;
\* when a JSON decoding error occurs (a report that cannot be parsed) it
\* returns ERROR, when another exception occurs EXCEPTION, and otherwise
\* SUCCESS.
C23_RunPytestOutcome ==
    last.op = "run_pytest" =>
        LET F == last.args[1]
            rc5 == last.args[2]
            how == IF Len(last.args) = 4 THEN last.args[4] ELSE "report"
        IN /\ ~last.raised
           /\ last.ret.cls = "ToolResult"
           /\ last.ret.status =
                 CASE rc5 -> "Error"
                   [] how = "malformed_report" -> "Error"
                   [] how = "crash" -> "Exception"
                   [] OTHER -> "Success"
           /\ rc5 => Cardinality(CollectionErrorsOfPath(F)) = last.before + 1

\* C24: the loop over the errors of a test file that held n of them stops,
\* finding none left, after at most n deletions; every deletion removes at
\* least the error the loop was given, also when errors share a node id or
\* the node id is the empty string.
C24_LoopTerminates ==
    /\ [](chain.stage \in {10, 11, 12} =>
            /\ Len(trace) <= Cardinality(chain.second)
            /\ chain.stage = 11 =>
                  (chain.first \cap pytest_errors = {} /\ last.ret >= 1)
            /\ chain.stage = 12 =>
                  {e \in pytest_errors : e.test_file_id = chain.tf} = {})
    /\ (chain.stage \in {10, 11}) ~> (chain.stage = 12)

\* The loop has stopped after deleting two errors, one with the empty node id.
C24_Witness ==
    /\ chain.stage = 12 /\ Cardinality(chain.second) = 2
    /\ trace = <<"", "n1">>

\* C25: save_test_results_to_db(F, S, E) leaves as they were the pytest_files
\* rows of other paths, the pytest_errors rows of other test files and every
\* row of source_files, coverage_issues, coverage_branches and
\* pytest_collection_errors; save_coverage_issues_to_db(P, issues) leaves as
\* they were the coverage_issues rows of other paths with their
\* coverage_branches, the source_files rows of other paths and every row of
\* the pytest tables.
C25_SaveFrame ==
    [][/\ last'.op = "save_test_results_to_db" =>
            LET F == last'.args[1]
                others(files) == {r \in files : r.file_path # F}
                foreign(errors, files) ==
                    {e \in errors : e.test_file_id \in Ids(others(files))}
            IN /\ others(pytest_files') = others(pytest_files)
               /\ foreign(pytest_errors', pytest_files') =
                     foreign(pytest_errors, pytest_files)
               /\ UNCHANGED <<source_files, coverage_issues, coverage_branches,
                              pytest_collection_errors>>
       /\ last'.op = "save_coverage_issues_to_db" =>
            LET P == last'.args[1]
                others(rows) == {r \in rows : r.file_path # P}
                foreign(branches, issues) ==
                    {b \in branches : b.coverage_issue_id \in Ids(others(issues))}
            IN /\ others(coverage_issues') = others(coverage_issues)
               /\ foreign(coverage_branches', coverage_issues') =
                     foreign(coverage_branches, coverage_issues)
               /\ others(source_files') = others(source_files)
               /\ UNCHANGED <<pytest_files, pytest_errors, pytest_collection_errors>>
      ]_vars

\* Test results were saved for one test file while another owns an error, a
\* coverage issue with a branch is stored and a collection error is logged.
C25_Witness ==
    /\ last.op = "save_test_results_to_db" /\ ~last.raised
    /\ \E e \in pytest_errors : e \notin ErrorsOfPath(last.args[1])
    /\ coverage_branches # {}
    /\ pytest_collection_errors # {}

\* C26: once save_coverage_issues_to_db(P, issues) has returned, source_files
\* holds exactly one row of path P and every coverage_issues row of path P
\* carries that row's id as its source_file_id, also when the call found
\* rows of P left behind by a deleted source file, their source_file_id stale
\* or NULL.
C26_IssueToSourceLink ==
    (last.op = "save_coverage_issues_to_db" /\ ~last.raised) =>
        LET P == last.args[1]
            src == {s \in source_files : s.file_path = P}
        IN /\ Cardinality(src) = 1
           /\ \A i \in coverage_issues :
                 i.file_path = P => \A s \in src : i.source_file_id = s.id

\* The save found a row of P whose source file was gone, and stored rows of P.
C26_Witness ==
    /\ last.op = "save_coverage_issues_to_db" /\ ~last.raised
    /\ chain.first # {}
    /\ \E i \in chain.first : i.source_file_id = 0
    /\ \E i \in coverage_issues : i.file_path = last.args[1]

\* C27: the registered tools next_pytest_error(test_file_path) and
\* delete_pytest_error(node_id) return, whatever the database holds and
\* whatever the argument, the one mapping with status "database_disabled",
\* and a call of either leaves every table as it was: the errors run_pytest
\* stored are neither returned nor removed through them.
C27_DisabledTools ==
    /\ [](last.op \in {"next_pytest_error", "delete_pytest_error_tool"} =>
            /\ ~last.raised
            /\ last.ret = database_disabled
            /\ last.ret.items.status = "database_disabled")
    /\ [][last'.op \in {"next_pytest_error", "delete_pytest_error_tool"} =>
            UNCHANGED tables]_vars

\* delete_pytest_error was called with the node id of an error that run_pytest
\* stored, and the error is still there.
C27_Witness ==
    /\ last.op = "delete_pytest_error_tool"
    /\ \E e \in ErrorsOfPath(OneTest) : e.node_id = last.args[1]

\* C28: whenever pytest exits with a code other than 5 and run_pytest catches
\* no exception, run_pytest returns SUCCESS with no next_action, however many
\* tests failed; no call of run_pytest returns CONTINUE or FAILURE.
C28_StatusIgnoresFailures ==
    last.op = "run_pytest" =>
        /\ ~last.raised
        /\ last.ret.status \notin {"Continue", "Failure"}
        /\ (~last.args[2] /\ (Len(last.args) = 4 => last.args[4] # "crash")) =>
              (last.ret.status = "Success" /\ last.ret.next_action = {})

\* A run with two failing tests returned, both errors stored.
C28_Witness ==
    /\ last.op = "run_pytest" /\ ~last.args[2]
    /\ Len(last.args[3]) = 2
    /\ last.ret.status = "Success"
    /\ Cardinality(ErrorsOfPath(last.args[1])) = 2

\* C29: every get_cursor scope works on the connection cached under the name
\* "mcp_qa", whatever names init_database and get_connection were given;
\* init_database(db_name) with another name runs the schema on the connection
\* of that name, which no get_cursor scope ever works on; and a call of
\* get_connection for a cached name returns the cached connection, made with
\* the options of the call that created it, and changes neither the cache
\* nor any connection.
C29_OneFixedConnection ==
    /\ [](/\ \A k \in conns.used :
               \E e \in conns.cache : e.name = "mcp_qa" /\ e.conn = k
          /\ \A e \in conns.cache : e.name # "mcp_qa" => e.conn \notin conns.used
          /\ (last.op = "init_database" /\ ~last.raised) =>
                \E e \in conns.cache :
                    e.name = last.args[1] /\ e.conn \in conns.schema)
    /\ [][(last'.op = "get_connection" /\ last'.before > 0) =>
            /\ ~last'.raised
            /\ [name |-> last'.args[1], conn |-> last'.ret] \in conns.cache
            /\ conns'.cache = conns.cache
            /\ conns'.made = conns.made]_vars

\* A get_cursor scope has run, the schema was applied to the connection of
\* another name, and a call for a cached name came with other options than
\* the connection was made with.
C29_Witness ==
    /\ last.op = "get_connection" /\ ~last.raised /\ last.before > 0
    /\ conns.made[last.ret].opts # last.args[2]
    /\ conns.used # {}
    /\ \E e \in conns.cache : e.name # "mcp_qa" /\ e.conn \in conns.schema

\* C30: an input entry whose type is neither "CoverageIssue" nor
\* "CoverageBranch", or that has no type, and a "CoverageBranch" entry that
\* carries a parent_issue_id, leave no coverage_issues row and no
\* coverage_branches row: after save_coverage_issues_to_db(P, issues) returns,
\* P has as many rows as the other entries of the input, none at all when
\* every entry was of these kinds, the rows of an earlier save being deleted
\* all the same, and the call returns None.
C30_DroppedEntries ==
    (last.op = "save_coverage_issues_to_db" /\ ~last.raised) =>
        LET P == last.args[1]
            issues == last.args[2]
            dropped(e) == \/ e.type \notin {"CoverageIssue", "CoverageBranch"}
                          \/ e.type = "CoverageBranch" /\ e.has_parent
            stored == SelectSeq(issues, LAMBDA e : ~dropped(e))
            rows == {i \in coverage_issues : i.file_path = P}
        IN /\ last.ret = 0
           /\ Cardinality(rows) = Len(stored)
           /\ stored = <<>> => (rows = {} /\ BranchesOf(rows) = {})
           /\ \A i \in rows :
                 \E j \in DOMAIN stored :
                    i.line_number = IF stored[j].type = "CoverageIssue"
                                    THEN stored[j].line_number
                                    ELSE stored[j].source_line
           /\ \A k \in DOMAIN issues :
                 dropped(issues[k]) =>
                    \A b \in BranchesOf(rows) : b.source_line # issues[k].source_line

\* A save of a branch that names its parent, over earlier rows of the path:
\* the path is left with no row.
C30_Witness ==
    /\ last.op = "save_coverage_issues_to_db" /\ ~last.raised
    /\ last.before > 0
    /\ last.args[2] = <<BranchEntry(31, TRUE)>>
    /\ {i \in coverage_issues : i.file_path = last.args[1]} = {}

====
